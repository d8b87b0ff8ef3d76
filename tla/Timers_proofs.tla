--------------------------- MODULE Timers_proofs ---------------------------
(***************************************************************************)
(* Deletion from the red-black tree of RbTree, the walk along it, and the  *)
(* timers of Timers, for any finite set of nodes, any delays and clocks    *)
(* and any width of the keys.                                              *)
(*                                                                         *)
(* A deletion first cuts a node out that has one child at most (TopCut and *)
(* its kin).  Where the deleted node has two children that one is the next *)
(* from left to right, and takes its place: the tree is the same but for   *)
(* the name of a node (Renamed).                                           *)
(***************************************************************************)
EXTENDS Timers, RbTree_proofs

----------------------------------------------------------------------------
(* The leftmost node below a node. *)
Leftmost(t, sub, pos, n, m) ==
    /\ m \in sub[n] /\ t.kid["left"][m] = Sentinel
    /\ \A b \in sub[n] : b = m \/ pos[m] < pos[b]

\* ngx_rbtree_min finds it.
LEMMA LeastIs ==
    ASSUME NEW t, NEW sub, NEW L, NEW pos, NEW key, Kept(t, sub, L, pos, key), NEW n \in L
    PROVE  Leftmost(t, sub, pos, n, Least(t, n))
<1> DEFINE S == {a \in sub[n] : \A b \in sub[n] : b \in sub[a] \/ pos[a] < pos[b]}
           Stop(a) == t.kid["left"][a] = Sentinel
           f == CHOOSE low : low = [i \in 0..Rounds |-> IF i = 0 THEN n ELSE DownLeft(t, low[i - 1])]
<1>1. /\ Shaped(t, sub) /\ L = sub[t.root] /\ L \subseteq Nodes /\ n \in Nodes /\ Rounds \in Nat
      /\ pos \in [Nodes -> Int] /\ \A a \in L : SortedAt(t, sub, pos, a)
      /\ sub[n] \subseteq L /\ "left" \in Sides /\ Other("left") = "right"
  <2>1. Shaped(t, sub) /\ L = sub[t.root] /\ pos \in [Nodes -> Int] /\ \A a \in L : SortedAt(t, sub, pos, a)
    BY DEF Kept, Sorted
  <2>2. L \subseteq Nodes /\ n \in Nodes
    BY KeptNode
  <2>3. Rounds \in Nat
    BY CellsAre, FS_CardinalityType DEF Rounds
  <2>4. "left" \in Sides /\ Other("left") = "right"
    BY DEF Sides, Other
  <2>5. sub[n] \subseteq L
    BY <2>1, LinkedIs
  <2> QED
    BY <2>1, <2>2, <2>3, <2>4, <2>5
<1>2. ASSUME NEW a \in L
      PROVE  /\ a \in sub[a] /\ sub[a] = {a} \cup sub[t.kid["left"][a]] \cup sub[t.kid["right"][a]]
             /\ \A b \in sub[t.kid["left"][a]] : pos[b] < pos[a]
             /\ \A b \in sub[t.kid["right"][a]] : pos[a] < pos[b]
  <2>1. a \in sub[a] /\ sub[a] = {a} \cup sub[t.kid["left"][a]] \cup sub[t.kid["right"][a]]
    BY <1>1, NodeIs
  <2>2. "right" \in Sides /\ "right" # "left"
    BY DEF Sides
  <2> QED
    BY <1>1, <2>1, <2>2 DEF SortedAt, Toward
<1>3. ASSUME NEW a \in S
      PROVE  /\ DownLeft(t, a) \in S /\ Cardinality(sub[a]) \in Nat /\ Cardinality(sub[a]) > 0
             /\ Cardinality(sub[a]) <= Rounds
             /\ Stop(a) => DownLeft(t, a) = a
             /\ ~Stop(a) => Cardinality(sub[DownLeft(t, a)]) < Cardinality(sub[a])
  <2>1. a \in Nodes /\ a \in L /\ a \in Ptrs /\ a \in sub[n] /\ \A b \in sub[n] : b \in sub[a] \/ pos[a] < pos[b]
    BY <1>1, CellsAre
  <2> HIDE DEF S
  <2>2. Cardinality(sub[a]) \in Nat /\ Cardinality(sub[a]) <= Rounds /\ Cardinality(sub[a]) > 0
    <3>1. Cardinality(sub[a]) \in Nat /\ Cardinality(sub[a]) <= Rounds /\ IsFiniteSet(sub[a])
      BY <1>1, <2>1, SubFinite DEF Shaped
    <3>2. a \in sub[a]
      BY <1>2, <2>1
    <3> QED
      BY <3>1, <3>2, FS_EmptySet
  <2>3. PICK c : c = t.kid["left"][a]
    OBVIOUS
  <2>4. CASE c = Sentinel
    <3>1. DownLeft(t, a) = a
      BY <2>3, <2>4 DEF DownLeft
    <3> QED
      BY <2>2, <2>3, <2>4, <3>1
  <2>5. CASE c # Sentinel
    <3>1. DownLeft(t, a) = c
      BY <2>3, <2>5 DEF DownLeft
    <3>2. c \in L
      BY <1>1, <2>1, <2>3, <2>5, LinkedIs
    <3>3. Cardinality(sub[c]) < Cardinality(sub[a])
      BY <1>1, <2>1, <2>3, KidSmaller
    <3>4. c \in sub[c] /\ pos[c] < pos[a]
      BY <1>2, <2>1, <2>3, <3>2
    <3>5. c \in sub[n]
      <4>1. c \in sub[a]
        BY <1>2, <2>1, <2>3, <3>4
      <4>2. sub[a] \subseteq sub[n]
        BY <1>1, <2>1, CellsAre, Laminar
      <4> QED
        BY <4>1, <4>2
    <3>6. ASSUME NEW b \in sub[n] PROVE b \in sub[c] \/ pos[c] < pos[b]
      <4>1. pos[a] \in Int /\ pos[b] \in Int /\ pos[c] \in Int
        BY <1>1, <2>1, <3>2
      <4>2. CASE pos[a] < pos[b]
        BY <3>4, <4>1, <4>2
      <4>3. CASE b \in sub[a]
        <5>1. b = a \/ b \in sub[c] \/ b \in sub[t.kid["right"][a]]
          BY <1>2, <2>1, <2>3, <4>3
        <5>2. b \in sub[t.kid["right"][a]] => pos[a] < pos[b]
          BY <1>2, <2>1
        <5> QED
          BY <3>4, <4>1, <5>1, <5>2
      <4> QED
        BY <2>1, <4>2, <4>3
    <3>7. c \in S
      BY <3>5, <3>6 DEF S
    <3> QED
      BY <2>2, <2>3, <2>5, <3>1, <3>3, <3>7
  <2> QED
    BY <2>4, <2>5
<1>4. n \in S
  BY <1>1, <1>2
<1>5. f = [i \in 0..Rounds |-> IF i = 0 THEN n ELSE DownLeft(t, f[i - 1])]
  <2> DEFINE g == [a \in S |-> DownLeft(t, a)]
  <2> HIDE DEF S
  <2>1. Round(g, S)
    BY <1>3 DEF Round
  <2>2. \E h : LoopOf(h, S, g, n, Rounds)
    <3> HIDE DEF g
    <3> QED
      BY <1>1, <1>4, <2>1, LoopExists
  <2>3. PICK h \in [0..Rounds -> S] : h[0] = n /\ \A i \in 1..Rounds : h[i] = g[h[i - 1]]
    BY <2>2 DEF LoopOf
  <2>4. ASSUME NEW i \in 0..Rounds, i # 0 PROVE h[i] = DownLeft(t, h[i - 1])
    <3>1. i \in 1..Rounds /\ i - 1 \in 0..Rounds
      BY <1>1, <2>4
    <3>2. h[i - 1] \in S /\ h[i] = g[h[i - 1]]
      BY <2>3, <3>1
    <3> QED
      BY <3>2
  <2>5. h = [i \in 0..Rounds |-> IF i = 0 THEN n ELSE DownLeft(t, h[i - 1])]
    BY <2>3, <2>4
  <2> QED
    BY <2>5, Zenon
<1> HIDE DEF f
<1>6. f[0] = n /\ \A i \in 0..Rounds : i # Rounds => f[i + 1] = DownLeft(t, f[i])
  <2>1. f[0] = n
    BY <1>1, <1>5
  <2>2. ASSUME NEW i \in 0..Rounds, i # Rounds PROVE f[i + 1] = DownLeft(t, f[i])
    <3>1. i + 1 \in 0..Rounds /\ i + 1 # 0 /\ (i + 1) - 1 = i
      BY <1>1, <2>2
    <3> QED
      BY <1>5, <3>1
  <2> QED
    BY <2>1, <2>2
<1> DEFINE I == {w \in (0..Rounds) \X S : Stop(w[2]) \/ Cardinality(sub[w[2]]) + w[1] <= Rounds}
<1> HIDE DEF S
<1>7. <<0, f[0]>> \in I
  BY <1>1, <1>3, <1>4, <1>6
<1>8. ASSUME NEW i \in 0..Rounds, i # Rounds, <<i, f[i]>> \in I
      PROVE  <<i + 1, f[i + 1]>> \in I
  <2>1. PICK a \in S : a = f[i] /\ (Stop(a) \/ Cardinality(sub[a]) + i <= Rounds)
    BY <1>8
  <2>2. PICK b : b = DownLeft(t, a)
    OBVIOUS
  <2>3. i + 1 \in 0..Rounds /\ f[i + 1] = b /\ i \in Nat
    BY <1>1, <1>6, <1>8, <2>1, <2>2
  <2>4. b \in S
    BY <1>3, <2>1, <2>2
  <2>5. Stop(b) \/ Cardinality(sub[b]) + (i + 1) <= Rounds
    <3>1. CASE Stop(a)
      BY <1>3, <2>1, <2>2, <3>1
    <3>2. CASE ~Stop(a)
      <4>1. /\ Cardinality(sub[a]) \in Nat /\ Cardinality(sub[b]) \in Nat
            /\ Cardinality(sub[b]) < Cardinality(sub[a]) /\ Cardinality(sub[a]) + i <= Rounds
        BY <1>3, <2>1, <2>2, <2>4, <3>2
      <4> QED
        BY <1>1, <2>3, <4>1
    <3> QED
      BY <3>1, <3>2
  <2> QED
    BY <2>3, <2>4, <2>5
<1>9. <<Rounds, f[Rounds]>> \in I
  <2> HIDE DEF I
  <2>1. \A i \in 0..Rounds : <<i, f[i]>> \in I
    BY <1>1, <1>7, <1>8, LoopKeeps
  <2> QED
    BY <1>1, <2>1
<1>10. PICK a \in S : a = f[Rounds] /\ (Stop(a) \/ Cardinality(sub[a]) + Rounds <= Rounds)
  BY <1>9
<1>11. Stop(a)
  <2>1. Cardinality(sub[a]) \in Nat /\ Cardinality(sub[a]) > 0
    BY <1>3
  <2> QED
    BY <1>1, <1>10, <2>1
<1>12. Least(t, n) = a
  BY <1>10, Zenon DEF Least, f
<1>13. a \in sub[n] /\ a \in L /\ \A b \in sub[n] : b \in sub[a] \/ pos[a] < pos[b]
  BY <1>1 DEF S
<1>14. ASSUME NEW b \in sub[n] PROVE b = a \/ pos[a] < pos[b]
  <2>1. sub[t.kid["left"][a]] = {}
    BY <1>1, <1>11 DEF Shaped, SubOK
  <2>2. CASE b \in sub[a]
    BY <1>2, <1>13, <2>1, <2>2
  <2> QED
    BY <1>13, <2>2
<1> QED
  BY <1>11, <1>12, <1>13, <1>14 DEF Leftmost

\* There is nothing below the sentinel.
LEMMA LeastOfNone ==
    ASSUME NEW t, NEW sub, Shaped(t, sub)
    PROVE  Least(t, Sentinel) = Sentinel
<1> DEFINE f == CHOOSE low : low = [i \in 0..Rounds |-> IF i = 0 THEN Sentinel ELSE DownLeft(t, low[i - 1])]
           h == [i \in 0..Rounds |-> Sentinel]
<1>1. DownLeft(t, Sentinel) = Sentinel
  BY SidesAre DEF DownLeft, Shaped, Leaved
<1>2. Rounds \in Nat
  BY CellsAre, FS_CardinalityType DEF Rounds
<1>3. f = [i \in 0..Rounds |-> IF i = 0 THEN Sentinel ELSE DownLeft(t, f[i - 1])]
  <2>1. ASSUME NEW i \in 0..Rounds PROVE h[i] = IF i = 0 THEN Sentinel ELSE DownLeft(t, h[i - 1])
    <3>1. i = 0 \/ i - 1 \in 0..Rounds
      BY <1>2
    <3> QED
      BY <1>1, <3>1
  <2>2. h = [i \in 0..Rounds |-> IF i = 0 THEN Sentinel ELSE DownLeft(t, h[i - 1])]
    BY <2>1
  <2> HIDE DEF h
  <2> QED
    BY <2>2, Zenon
<1> HIDE DEF f
<1> DEFINE I == (0..Rounds) \X {Sentinel}
<1>4. <<0, f[0]>> \in I
  BY <1>2, <1>3
<1>5. ASSUME NEW i \in 0..Rounds, i # Rounds, <<i, f[i]>> \in I PROVE <<i + 1, f[i + 1]>> \in I
  <2>1. i + 1 \in 0..Rounds /\ i + 1 # 0 /\ (i + 1) - 1 = i /\ f[i] = Sentinel
    BY <1>2, <1>5
  <2>2. f[i + 1] = DownLeft(t, f[i])
    BY <1>3, <2>1
  <2> QED
    BY <1>1, <2>1, <2>2
<1>6. <<Rounds, f[Rounds]>> \in I
  <2> HIDE DEF I
  <2>1. \A i \in 0..Rounds : <<i, f[i]>> \in I
    BY <1>2, <1>4, <1>5, LoopKeeps
  <2> QED
    BY <1>2, <2>1
<1>7. Least(t, Sentinel) = f[Rounds]
  BY Zenon DEF Least, f
<1> QED
  BY <1>6, <1>7

----------------------------------------------------------------------------
(* Deletion: a node with a free side is cut out of the tree. *)

\* r is t without s, whose child c has taken its place.
Cut(t, r, s, c) ==
    /\ r \in Trees
    /\ s = t.root => r.root = c
    /\ s # t.root => /\ r.root = t.root /\ r.kid[SideOf(t, s)][t.parent[s]] = c
                     /\ r.parent[c] = t.parent[s]
    /\ \A q \in Sides : r.kid[q][s] = Null
    /\ \A q \in Sides, d \in Cells :
         d # s /\ (s = t.root \/ q # SideOf(t, s) \/ d # t.parent[s]) => r.kid[q][d] = t.kid[q][d]
    /\ \A d \in Cells : d # s /\ d # c => r.parent[d] = t.parent[d]
    /\ \A d \in Cells : r.red[d] => t.red[d]
CutSub(sub, s) == [m \in Ptrs |-> IF m = s THEN {s} ELSE sub[m] \ {s}]

\* The node that is cut out, its parent and its children.
LEMMA CutNode ==
    ASSUME NEW t, NEW sub, NEW L, NEW pos, NEW key, Kept(t, sub, L, pos, key),
           NEW s \in L, NEW e \in Sides, t.kid[e][s] = Sentinel, NEW c, c = t.kid[Other(e)][s]
    PROVE  /\ s \in Nodes /\ s # Sentinel /\ s # Null /\ c \in Cells /\ c # s /\ c # t.root
           /\ sub[s] = {s} \cup sub[c] /\ s \notin sub[c]
           /\ c # Sentinel => c \in L /\ t.parent[c] = s
           /\ s # t.root => /\ SideOf(t, s) \in Sides /\ t.parent[s] \in L /\ t.parent[s] # s /\ t.parent[s] # c
                            /\ t.kid[SideOf(t, s)][t.parent[s]] = s
           /\ \A m \in Nodes, q \in Sides :
                t.kid[q][m] = s => s # t.root /\ m = t.parent[s] /\ q = SideOf(t, s)
           /\ \A q \in Sides : t.kid[q][s] = Sentinel \/ t.kid[q][s] = c
<1>1. Shaped(t, sub) /\ L = sub[t.root] /\ Other(e) \in Sides
  BY SidesAre DEF Kept
<1>2. s \in Nodes /\ s # Sentinel /\ s # Null /\ c \in Cells /\ c # s /\ c # t.root
      /\ (c # Sentinel => c \in L /\ t.parent[c] = s)
  BY <1>1, KeptNode
<1>3. sub[s] = {s} \cup sub[c] /\ s \notin sub[c]
  <2>1. sub[Sentinel] = {}
    BY <1>1 DEF Shaped, SubOK
  <2>2. sub[s] = {s} \cup sub[t.kid[e][s]] \cup sub[c] /\ s \notin sub[c]
    <3>1. NestAt(t, sub, s, e)
      BY <1>1, <1>2, NestAtIs
    <3> QED
      BY <3>1 DEF NestAt
  <2> QED
    BY <2>1, <2>2
<1>4. s # t.root => /\ SideOf(t, s) \in Sides /\ t.parent[s] \in L /\ t.parent[s] # s
                    /\ t.kid[SideOf(t, s)][t.parent[s]] = s
  BY KeptNode
<1>5. s # t.root => t.parent[s] # c
  <2> SUFFICES ASSUME s # t.root, t.parent[s] = c PROVE FALSE
    OBVIOUS
  <2>1. c \in Nodes /\ s \in sub[c]
    <3>1. c \in Nodes
      BY <1>4, KeptNode
    <3>2. NestAt(t, sub, c, SideOf(t, s)) /\ t.kid[SideOf(t, s)][c] = s
      BY <1>1, <1>4, <3>1, NestAtIs
    <3>3. s \in sub[s]
      BY <1>3
    <3> QED
      BY <3>1, <3>2, <3>3 DEF NestAt
  <2> QED
    BY <1>3, <2>1
<1>6. \A m \in Nodes, q \in Sides : t.kid[q][m] = s => s # t.root /\ m = t.parent[s] /\ q = SideOf(t, s)
  BY <1>1, PlaceIs
<1>7. \A q \in Sides : t.kid[q][s] = Sentinel \/ t.kid[q][s] = c
  BY SidesAre
<1> QED
  BY <1>2, <1>3, <1>4, <1>5, <1>6, <1>7

\* What is below the children then.
LEMMA CutKids ==
    ASSUME NEW t, NEW sub, NEW L, NEW pos, NEW key, Kept(t, sub, L, pos, key),
           NEW s \in L, NEW e \in Sides, t.kid[e][s] = Sentinel, NEW c, c = t.kid[Other(e)][s],
           NEW r, Cut(t, r, s, c), NEW m \in Nodes, m # s, NEW q \in Sides
    PROVE  /\ r.kid[q][m] \in Ptrs /\ CutSub(sub, s)[r.kid[q][m]] = sub[t.kid[q][m]] \ {s}
           /\ t.kid[q][m] = s => r.kid[q][m] = c
           /\ t.kid[q][m] # s => r.kid[q][m] = t.kid[q][m]
<1>1. /\ s # Null /\ c \in Cells /\ c # s /\ sub[s] = {s} \cup sub[c] /\ s \notin sub[c]
      /\ s # t.root => SideOf(t, s) \in Sides /\ t.parent[s] \in L /\ t.kid[SideOf(t, s)][t.parent[s]] = s
      /\ t.kid[q][m] = s => s # t.root /\ m = t.parent[s] /\ q = SideOf(t, s)
  <2>1. /\ s # Null /\ c \in Cells /\ c # s /\ sub[s] = {s} \cup sub[c] /\ s \notin sub[c]
        /\ s # t.root => SideOf(t, s) \in Sides /\ t.parent[s] \in L /\ t.kid[SideOf(t, s)][t.parent[s]] = s
    BY CutNode
  <2>2. \A a \in Nodes, x \in Sides : t.kid[x][a] = s => s # t.root /\ a = t.parent[s] /\ x = SideOf(t, s)
    BY CutNode
  <2> QED
    BY <2>1, <2>2
<1>2. t.kid[q][m] \in Ptrs /\ m \in Cells /\ c \in Ptrs
  <2>1. t \in Trees /\ m \in Cells
    BY CellsAre DEF Kept, Shaped
  <2> QED
    BY <1>1, <2>1, CellsAre, TreeFields
<1>3. CASE t.kid[q][m] = s
  <2>1. r.kid[q][m] = c
    BY <1>1, <1>3 DEF Cut
  <2>2. CutSub(sub, s)[c] = sub[c] \ {s}
    BY <1>1, <1>2 DEF CutSub
  <2> QED
    BY <1>1, <1>2, <1>3, <2>1, <2>2
<1>4. CASE t.kid[q][m] # s
  <2>1. s = t.root \/ q # SideOf(t, s) \/ m # t.parent[s]
    BY <1>1, <1>4
  <2>2. r.kid[q][m] = t.kid[q][m]
    BY <1>2, <2>1 DEF Cut
  <2>3. CutSub(sub, s)[t.kid[q][m]] = sub[t.kid[q][m]] \ {s}
    BY <1>2, <1>4 DEF CutSub
  <2> QED
    BY <1>2, <1>4, <2>2, <2>3
<1> QED
  BY <1>3, <1>4

\* What is left is kept in order.
LEMMA CutKept ==
    ASSUME NEW t, NEW sub, NEW L, NEW pos, NEW key, Kept(t, sub, L, pos, key),
           NEW s \in L, NEW e \in Sides, t.kid[e][s] = Sentinel, NEW c, c = t.kid[Other(e)][s],
           NEW r, Cut(t, r, s, c), NEW sub2, sub2 = CutSub(sub, s)
    PROVE  Kept(r, sub2, L \ {s}, pos, r.key)
<1>1. /\ Shaped(t, sub) /\ t \in Trees /\ L = sub[t.root] /\ L \subseteq Nodes /\ t.root \in L
      /\ SubOK(sub) /\ pos \in [Nodes -> Int] /\ ~t.red[Sentinel]
  <2>1. Shaped(t, sub) /\ t \in Trees /\ L = sub[t.root] /\ pos \in [Nodes -> Int] /\ ~t.red[Sentinel]
    BY DEF Kept, Shaped, Sorted
  <2>2. L \subseteq Nodes /\ t.root \in L
    BY KeptNode
  <2> QED
    BY <2>1, <2>2 DEF Shaped
<1>2. /\ s \in Nodes /\ s # Sentinel /\ s # Null /\ c \in Cells /\ c # s /\ c # t.root
      /\ sub[s] = {s} \cup sub[c] /\ s \notin sub[c]
      /\ c # Sentinel => c \in L /\ t.parent[c] = s
      /\ s # t.root => /\ SideOf(t, s) \in Sides /\ t.parent[s] \in L /\ t.parent[s] # s /\ t.parent[s] # c
                       /\ t.kid[SideOf(t, s)][t.parent[s]] = s
  BY CutNode
<1>3. ASSUME NEW m \in Nodes, m # s, NEW q \in Sides
      PROVE  /\ r.kid[q][m] \in Ptrs /\ sub2[r.kid[q][m]] = sub[t.kid[q][m]] \ {s}
             /\ t.kid[q][m] = s => r.kid[q][m] = c
             /\ t.kid[q][m] # s => r.kid[q][m] = t.kid[q][m]
  BY <1>3, CutKids
<1>4. SubOK(sub2)
  <2>1. sub2 \in [Ptrs -> SUBSET Nodes]
    BY <1>1, <1>2 DEF CutSub, SubOK
  <2> QED
    BY <1>1, <1>2, <2>1, CellsAre DEF CutSub, SubOK
<1>5. \A q \in Sides : r.kid[q][s] = Null
  BY DEF Cut
<1>6. Nested(r, sub2)
  <2>1. ASSUME NEW m \in Nodes PROVE NestAt(r, sub2, m, "left")
    <3>1. "left" \in Sides /\ Other("left") \in Sides
      BY SidesAre
    <3>2. CASE m = s
      <4>1. sub2[Null] = {} /\ sub2[s] = {s}
        BY <1>2, <1>4, CellsAre DEF SubOK, CutSub
      <4>2. r.kid["left"][s] = Null /\ r.kid[Other("left")][s] = Null
        BY <1>5, <3>1
      <4> QED
        BY <3>2, <4>1, <4>2 DEF NestAt
    <3>3. CASE m # s
      <4>1. NestAt(t, sub, m, "left")
        BY <1>1, <3>1, NestAtIs
      <4>2. sub2[m] = sub[m] \ {s}
        BY <3>3, CellsAre DEF CutSub
      <4>3. /\ sub2[r.kid["left"][m]] = sub[t.kid["left"][m]] \ {s}
            /\ sub2[r.kid[Other("left")][m]] = sub[t.kid[Other("left")][m]] \ {s}
        BY <1>3, <3>1, <3>3
      <4>4. /\ sub[m] \ {s} = {m} \cup (sub[t.kid["left"][m]] \ {s}) \cup (sub[t.kid[Other("left")][m]] \ {s})
            /\ m \notin sub[t.kid["left"][m]] \ {s} /\ m \notin sub[t.kid[Other("left")][m]] \ {s}
            /\ (sub[t.kid["left"][m]] \ {s}) \cap (sub[t.kid[Other("left")][m]] \ {s}) = {}
        BY <3>3, <4>1 DEF NestAt
      <4> QED
        BY <4>2, <4>3, <4>4 DEF NestAt
    <3> QED
      BY <3>2, <3>3
  <2>2. "left" \in Sides
    BY SidesAre
  <2> QED
    BY <2>1, <2>2, NestedFrom
<1>7. sub2[r.root] = L \ {s}
  <2>1. CASE s = t.root
    <3>1. r.root = c /\ c \in Ptrs
      BY <1>2, <2>1, CellsAre DEF Cut
    <3>2. sub2[c] = sub[c] \ {s}
      BY <1>2, <3>1 DEF CutSub
    <3> QED
      BY <1>1, <1>2, <2>1, <3>1, <3>2
  <2>2. CASE s # t.root
    <3>1. r.root = t.root /\ t.root \in Ptrs
      BY <1>1, <2>2, CellsAre DEF Cut
    <3> QED
      BY <1>1, <2>2, <3>1 DEF CutSub
  <2> QED
    BY <2>1, <2>2
<1>8. Leaved(r, sub2)
  <2>1. \A q \in Sides : r.kid[q][Sentinel] = Sentinel
    <3> TAKE q \in Sides
    <3>1. s # t.root => t.parent[s] # Sentinel
      BY <1>1, <1>2, CellsAre
    <3>2. r.kid[q][Sentinel] = t.kid[q][Sentinel]
      BY <1>2, <3>1, CellsAre DEF Cut
    <3> QED
      BY <1>1, <3>2 DEF Shaped, Leaved
  <2>2. ASSUME NEW m \in Nodes, NEW q \in Sides PROVE r.kid[q][m] # Null <=> m \in L \ {s}
    <3>1. CASE m = s
      BY <1>5, <3>1
    <3>2. CASE m # s
      <4>1. t.kid[q][m] # Null <=> m \in L
        BY <1>1 DEF Shaped, Leaved
      <4>2. r.kid[q][m] = Null <=> t.kid[q][m] = Null
        BY <1>2, <1>3, <3>2, CellsAre
      <4> QED
        BY <3>2, <4>1, <4>2
    <3> QED
      BY <3>1, <3>2
  <2> QED
    BY <1>7, <2>1, <2>2 DEF Leaved
<1>9. Parented(r, sub2)
  <2>1. ASSUME NEW m \in Nodes, NEW q \in Sides, r.kid[q][m] \in Nodes PROVE r.parent[r.kid[q][m]] = m
    <3>1. m # s
      BY <1>5, <2>1, CellsAre
    <3>2. CASE t.kid[q][m] = s
      <4>1. s # t.root /\ m = t.parent[s]
        BY <3>2, CutNode
      <4> QED
        BY <1>3, <3>1, <3>2, <4>1 DEF Cut
    <3>3. CASE t.kid[q][m] # s
      <4>1. PICK k : k = t.kid[q][m]
        OBVIOUS
      <4>2. r.kid[q][m] = k /\ k \in Nodes /\ k \in Cells /\ k # s /\ t.parent[k] = m
        BY <1>1, <1>3, <2>1, <3>1, <3>3, <4>1, CellsAre DEF Shaped, Parented
      <4>3. k # c
        BY <1>2, <3>1, <4>2, CellsAre
      <4>4. r.parent[k] = t.parent[k]
        BY <4>2, <4>3 DEF Cut
      <4> QED
        BY <4>2, <4>4
    <3> QED
      BY <3>2, <3>3
  <2>2. ASSUME NEW m \in L \ {s}, m # r.root PROVE r.parent[m] \in L \ {s} /\ Hangs(r, m)
    <3>1. m \in Cells /\ m # s /\ m \in L /\ m # Sentinel /\ m # t.root
      <4>1. m \in Cells /\ m # s /\ m \in L /\ m # Sentinel
        BY <1>1, CellsAre
      <4> QED
        BY <2>2, <4>1 DEF Cut
    <3>2. CASE m = c
      <4>1. s # t.root
        BY <2>2, <3>2 DEF Cut
      <4>2. r.parent[c] = t.parent[s] /\ r.kid[SideOf(t, s)][t.parent[s]] = c
        BY <4>1 DEF Cut
      <4> QED
        BY <1>2, <3>2, <4>1, <4>2 DEF Hangs
    <3>3. CASE m # c
      <4>1. t.parent[m] \in L /\ t.kid[SideOf(t, m)][t.parent[m]] = m /\ SideOf(t, m) \in Sides
        BY <3>1, KeptNode
      <4>2. r.parent[m] = t.parent[m]
        BY <3>1, <3>3 DEF Cut
      <4>3. t.parent[m] # s
        <5>1. \A q \in Sides : t.kid[q][s] = Sentinel \/ t.kid[q][s] = c
          BY CutNode
        <5> QED
          BY <3>1, <3>3, <4>1, <5>1
      <4>4. r.kid[SideOf(t, m)][t.parent[m]] = m
        BY <1>1, <1>3, <3>1, <4>1, <4>3
      <4> QED
        BY <4>1, <4>2, <4>3, <4>4 DEF Hangs
    <3> QED
      BY <3>2, <3>3
  <2> QED
    BY <1>7, <2>1, <2>2 DEF Parented
<1>10. Shaped(r, sub2)
  BY <1>4, <1>6, <1>8, <1>9 DEF Shaped, Cut
<1>11. Sorted(r, sub2, pos)
  <2> SUFFICES ASSUME NEW a \in L \ {s}, NEW q \in Sides, NEW m \in sub2[r.kid[q][a]]
               PROVE  Toward(q, pos[m], pos[a])
    BY <1>1, <1>7 DEF Sorted, SortedAt
  <2>1. m \in sub[t.kid[q][a]]
    BY <1>1, <1>3
  <2> QED
    BY <1>1, <2>1 DEF Kept, Sorted, SortedAt
<1>12. ~r.red[Sentinel]
  BY <1>1, CellsAre DEF Cut
<1> QED
  BY <1>7, <1>10, <1>11, <1>12 DEF Kept

\* Without a red node as many black nodes are on every path as before.
LEMMA CutRed ==
    ASSUME NEW t, NEW sub, NEW L, NEW pos, NEW key, Balanced(t, sub, L, pos, key),
           NEW s \in L, NEW e \in Sides, t.kid[e][s] = Sentinel, NEW c, c = t.kid[Other(e)][s],
           NEW r, Cut(t, r, s, c), r.red = t.red, t.red[s],
           NEW sub2, sub2 = CutSub(sub, s)
    PROVE  Balanced(r, sub2, L \ {s}, pos, r.key)
<1>1. Kept(t, sub, L, pos, key) /\ ~t.red[t.root] /\ s # t.root /\ L \subseteq Nodes
  <2>1. Kept(t, sub, L, pos, key) /\ ~t.red[t.root]
    BY DEF Balanced
  <2> QED
    BY <2>1, KeptNode
<1>2. PICK h : h \in [Cells -> Nat] /\ h[Sentinel] = 0 /\ \A n \in L, q \in Sides : EvenAt(t, h, n, q)
  BY <1>1, EvenIs DEF Balanced
<1>3. Kept(r, sub2, L \ {s}, pos, r.key)
  BY <1>1, CutKept
<1>4. ASSUME NEW m \in L, m # s, NEW q \in Sides
      PROVE  /\ t.kid[q][m] = s => r.kid[q][m] = c
             /\ t.kid[q][m] # s => r.kid[q][m] = t.kid[q][m]
  BY <1>1, <1>4, CutKids
<1>5. h[s] = h[c]
  <2>1. EvenAt(t, h, s, Other(e)) /\ c \in Cells
    BY <1>1, <1>2, CutNode, SidesAre
  <2> QED
    BY <1>2, <2>1 DEF EvenAt, Black
<1>6. Even(r, L \ {s}, h)
  <2>1. ASSUME NEW a \in L \ {s}, NEW q \in Sides PROVE EvenAt(r, h, a, q)
    <3>1. EvenAt(t, h, a, q)
      BY <1>2
    <3>2. h[r.kid[q][a]] = h[t.kid[q][a]]
      BY <1>4, <1>5
    <3> QED
      BY <3>1, <3>2 DEF EvenAt, Black
  <2> QED
    BY <1>1, <1>2, <2>1, EvenIs
<1>7. ASSUME NEW a \in L \ {s}, NEW q \in Sides PROVE ~(r.red[a] /\ r.red[r.kid[q][a]])
  BY <1>4 DEF Balanced
<1>8. ~r.red[r.root]
  BY <1>1 DEF Cut
<1> QED
  BY <1>3, <1>6, <1>7, <1>8 DEF Balanced

\* Without a black one, the paths through what took its place lack a black node.
LEMMA CutBlack ==
    ASSUME NEW t, NEW sub, NEW L, NEW pos, NEW key, Balanced(t, sub, L, pos, key),
           NEW s \in L, NEW e \in Sides, t.kid[e][s] = Sentinel, NEW c, c = t.kid[Other(e)][s],
           NEW r, Cut(t, r, s, c), r.red = t.red, ~t.red[s], s # t.root,
           NEW sub2, sub2 = CutSub(sub, s)
    PROVE  LackAt(r, c, sub2, L \ {s}, pos, r.key)
<1>1. Kept(t, sub, L, pos, key) /\ ~t.red[t.root] /\ L \subseteq Nodes /\ t.root \in L
  <2>1. Kept(t, sub, L, pos, key) /\ ~t.red[t.root]
    BY DEF Balanced
  <2> QED
    BY <2>1, KeptNode
<1>2. PICK h : h \in [Cells -> Nat] /\ h[Sentinel] = 0 /\ \A n \in L, q \in Sides : EvenAt(t, h, n, q)
  BY <1>1, EvenIs DEF Balanced
<1>3. Kept(r, sub2, L \ {s}, pos, r.key)
  BY <1>1, CutKept
<1>4. ASSUME NEW m \in L, m # s, NEW q \in Sides
      PROVE  /\ t.kid[q][m] = s => r.kid[q][m] = c
             /\ t.kid[q][m] # s => r.kid[q][m] = t.kid[q][m]
  BY <1>1, <1>4, CutKids
<1> DEFINE p == t.parent[s]
           side == SideOf(t, s)
<1>5. /\ c \in Cells /\ c # s /\ c # t.root /\ p \in L /\ p # s /\ side \in Sides /\ t.kid[side][p] = s
      /\ c # Sentinel => c \in L /\ t.parent[c] = s
      /\ \A m \in L, q \in Sides : t.kid[q][m] = s => m = p /\ q = side
  <2>1. /\ c \in Cells /\ c # s /\ c # t.root /\ p \in L /\ p # s /\ side \in Sides /\ t.kid[side][p] = s
        /\ c # Sentinel => c \in L /\ t.parent[c] = s
    BY <1>1, CutNode
  <2>2. \A m \in L, q \in Sides : t.kid[q][m] = s => m = p /\ q = side
    BY <1>1, CutNode
  <2> QED
    BY <2>1, <2>2
<1>6. r.root = t.root /\ r.kid[side][p] = c /\ r.parent[c] = p
  BY DEF Cut
<1>7. h[s] = h[c] + 1 /\ h[c] \in Nat
  <2>1. EvenAt(t, h, s, Other(e))
    BY <1>2, SidesAre
  <2>2. h[s] = h[c] + 1
    BY <2>1 DEF EvenAt, Black
  <2> QED
    BY <1>2, <1>5, <2>2
<1>8. SideOf(r, c) = side
  <2>1. CASE side = "left"
    BY <1>6, <2>1 DEF SideOf
  <2>2. CASE side # "left"
    <3>1. side = "right" /\ "left" \in Sides
      BY <1>5, <2>2, SidesAre
    <3>2. r.kid["left"][p] = t.kid["left"][p]
      BY <1>4, <1>5, <2>2, <3>1
    <3>3. t.kid["left"][p] # c
      <4>1. CASE c = Sentinel
        <5>1. EvenAt(t, h, p, "left") /\ EvenAt(t, h, p, side)
          BY <1>2, <1>5, <3>1
        <5>2. h[p] = h[s] + Black(t, p) /\ h[p] = h[t.kid["left"][p]] + Black(t, p)
          BY <1>5, <5>1 DEF EvenAt
        <5>3. Black(t, p) \in {0, 1}
          BY DEF Black
        <5>4. h[s] \in Nat /\ h[c] = 0
          BY <1>2, <1>7, <4>1
        <5> QED
          BY <1>7, <5>2, <5>3, <5>4
      <4>2. CASE c # Sentinel
        <5>1. t.kid["left"][p] = c => p = t.parent[c]
          BY <1>1, <1>5, <3>1, <4>2, KeptNode
        <5> QED
          BY <1>5, <4>2, <5>1
      <4> QED
        BY <4>1, <4>2
    <3> QED
      BY <1>6, <3>1, <3>2, <3>3 DEF SideOf
  <2> QED
    BY <2>1, <2>2
<1>9. Heights(r, L \ {s}, h, p, side)
  <2>1. ASSUME NEW a \in L \ {s}, NEW q \in Sides
        PROVE  IF a = p /\ q = side THEN ShortAt(r, h, a, q) ELSE EvenAt(r, h, a, q)
    <3>1. EvenAt(t, h, a, q)
      BY <1>2
    <3>2. Black(r, a) = Black(t, a) /\ Black(t, a) \in {0, 1}
      BY DEF Black
    <3>3. CASE a = p /\ q = side
      <4>1. h[a] = h[s] + Black(t, a) /\ h[r.kid[q][a]] = h[c]
        BY <1>5, <1>6, <3>1, <3>3 DEF EvenAt
      <4>2. h[a] = h[r.kid[q][a]] + (1 + Black(r, a))
        BY <1>7, <3>2, <4>1
      <4> QED
        BY <3>3, <4>2 DEF ShortAt
    <3>4. CASE ~(a = p /\ q = side)
      <4>1. r.kid[q][a] = t.kid[q][a]
        BY <1>4, <1>5, <3>4
      <4>2. EvenAt(r, h, a, q)
        BY <3>1, <3>2, <4>1 DEF EvenAt
      <4> QED
        BY <3>4, <4>2
    <3> QED
      BY <3>3, <3>4
  <2> QED
    BY <1>2, <2>1, ShortIs
<1>10. ASSUME NEW a \in L \ {s}, NEW q \in Sides, r.red[a] /\ r.red[r.kid[q][a]]
       PROVE  a = c \/ r.kid[q][a] = c
  <2>1. ~(t.red[a] /\ t.red[t.kid[q][a]])
    BY DEF Balanced
  <2> QED
    BY <1>4, <1>10, <2>1
<1>11. /\ r.root \in L \ {s} /\ ~r.red[r.root] /\ c # r.root
       /\ r.parent[c] \in L \ {s} /\ r.kid[SideOf(r, c)][r.parent[c]] = c
       /\ \E f : Heights(r, L \ {s}, f, r.parent[c], SideOf(r, c))
  BY <1>1, <1>5, <1>6, <1>8, <1>9
<1> QED
  BY <1>3, <1>5, <1>10, <1>11 DEF LackAt

\* What takes the place of the root turns black.
TopCut(t, r, s, c) == Cut(t, r, s, c) /\ ~r.red[c] /\ \A d \in Cells : d # c => r.red[d] = t.red[d]

\* The root is cut out.
LEMMA CutTop ==
    ASSUME NEW t, NEW sub, NEW L, NEW pos, NEW key, Balanced(t, sub, L, pos, key),
           NEW s \in L, NEW e \in Sides, t.kid[e][s] = Sentinel, NEW c, c = t.kid[Other(e)][s],
           NEW r, TopCut(t, r, s, c), s = t.root,
           NEW sub2, sub2 = CutSub(sub, s)
    PROVE  Balanced(r, sub2, L \ {s}, pos, r.key)
<1> USE DEF TopCut
<1>1. Kept(t, sub, L, pos, key) /\ ~t.red[t.root] /\ L \subseteq Nodes /\ t.root \in L
  <2>1. Kept(t, sub, L, pos, key) /\ ~t.red[t.root]
    BY DEF Balanced
  <2> QED
    BY <2>1, KeptNode
<1>2. PICK h : h \in [Cells -> Nat] /\ h[Sentinel] = 0 /\ \A n \in L, q \in Sides : EvenAt(t, h, n, q)
  BY <1>1, EvenIs DEF Balanced
<1>3. Kept(r, sub2, L \ {s}, pos, r.key) /\ r.root = c
  <2>1. Kept(r, sub2, L \ {s}, pos, r.key)
    BY <1>1, CutKept
  <2> QED
    BY <2>1 DEF Cut
<1>4. /\ c \in Cells /\ c # s /\ L = {s} \cup sub[c]
      /\ c # Sentinel => c \in L /\ t.parent[c] = s
  <2>1. c \in Cells /\ c # s /\ sub[s] = {s} \cup sub[c] /\ (c # Sentinel => c \in L /\ t.parent[c] = s)
    BY <1>1, CutNode
  <2>2. sub[s] = L
    BY <1>1 DEF Kept
  <2> QED
    BY <2>1, <2>2
<1>5. CASE c = Sentinel
  <2>1. L \ {s} = {}
    BY <1>1, <1>4, <1>5 DEF Kept, Shaped, SubOK
  <2>2. Even(r, L \ {s}, h)
    BY <1>2, <2>1, EvenIs
  <2> QED
    BY <1>3, <2>1, <2>2 DEF Balanced
<1>6. CASE c # Sentinel
  <2>1. ASSUME NEW a \in L \ {s}, NEW q \in Sides
        PROVE  r.kid[q][a] = t.kid[q][a] /\ t.kid[q][a] \in Cells /\ t.kid[q][a] # c
    <3>1. t.kid[q][a] # s
      BY <1>1, <2>1, KeptNode
    <3>2. r.kid[q][a] = t.kid[q][a]
      BY <1>1, <2>1, <3>1, CutKids
    <3>3. t.kid[q][a] = c => a = t.parent[c]
      BY <1>1, <1>6, <2>1, KidKept
    <3> QED
      BY <1>1, <1>4, <1>6, <2>1, <3>2, <3>3, KidsAre
  <2> DEFINE f == [h EXCEPT ![c] = IF t.red[c] THEN h[c] + 1 ELSE h[c]]
  <2>2. /\ f \in [Cells -> Nat] /\ f[Sentinel] = 0
        /\ \A d \in Cells : d # c => f[d] = h[d]
        /\ t.red[c] => f[c] = h[c] + 1
        /\ ~t.red[c] => f[c] = h[c]
    <3>1. h \in [Cells -> Nat] /\ h[Sentinel] = 0 /\ c \in Cells /\ h[c] \in Nat
      BY <1>2, <1>4
    <3>2. f \in [Cells -> Nat]
      BY <3>1
    <3>3. \A d \in Cells : f[d] = IF d = c THEN (IF t.red[c] THEN h[c] + 1 ELSE h[c]) ELSE h[d]
      BY <3>1
    <3> HIDE DEF f
    <3> QED
      BY <1>6, <3>1, <3>2, <3>3, CellsAre
  <2> HIDE DEF f
  <2>3. ASSUME NEW a \in L \ {s}, NEW q \in Sides PROVE EvenAt(r, f, a, q)
    <3>1. h[a] = h[t.kid[q][a]] + Black(t, a) /\ h[t.kid[q][a]] \in Nat /\ a \in Cells
      BY <1>1, <1>2, <2>1, CellsAre DEF EvenAt
    <3>2. f[r.kid[q][a]] = h[t.kid[q][a]]
      BY <2>1, <2>2
    <3>3. CASE a = c
      <4>1. Black(r, a) = 1
        BY <3>3 DEF Black
      <4>2. f[a] = h[t.kid[q][a]] + 1
        <5>1. CASE t.red[c]
          <6>1. Black(t, a) = 0
            BY <3>3, <5>1 DEF Black
          <6>2. f[a] = h[a] + 1
            BY <2>2, <3>3, <5>1
          <6>3. h[a] = h[t.kid[q][a]]
            BY <3>1, <6>1, NothingMore, Zenon
          <6> QED
            BY <6>2, <6>3
        <5>2. CASE ~t.red[c]
          <6>1. Black(t, a) = 1
            BY <3>3, <5>2 DEF Black
          <6> QED
            BY <2>2, <3>1, <3>3, <5>2, <6>1
        <5> QED
          BY <5>1, <5>2
      <4> QED
        BY <3>2, <4>1, <4>2 DEF EvenAt
    <3>4. CASE a # c
      <4>1. Black(r, a) = Black(t, a) /\ f[a] = h[a]
        BY <2>2, <3>1, <3>4 DEF Black
      <4> QED
        BY <3>1, <3>2, <4>1 DEF EvenAt
    <3> QED
      BY <3>3, <3>4
  <2>4. Even(r, L \ {s}, f)
    BY <1>1, <2>2, <2>3, EvenIs
  <2>5. ASSUME NEW a \in L \ {s}, NEW q \in Sides PROVE ~(r.red[a] /\ r.red[r.kid[q][a]])
    <3>1. ~(t.red[a] /\ t.red[t.kid[q][a]])
      BY DEF Balanced
    <3>2. a \in Cells /\ r.kid[q][a] = t.kid[q][a] /\ t.kid[q][a] \in Cells /\ t.kid[q][a] # c
      BY <1>1, <2>1, CellsAre
    <3>3. r.red[a] => t.red[a]
      BY <3>2
    <3>4. r.red[r.kid[q][a]] => t.red[t.kid[q][a]]
      BY <3>2
    <3> QED
      BY <3>1, <3>3, <3>4
  <2> QED
    BY <1>3, <2>4, <2>5 DEF Balanced
<1> QED
  BY <1>5, <1>6

----------------------------------------------------------------------------
(* Deletion: a node without a place takes the place of another. *)
Moved(n, s, x) == IF x = n THEN s ELSE x
Ren(A, n, s) == (A \ {n}) \cup {x \in {s} : n \in A}

\* r is t with s, which is not linked, in the place of n.
Renamed(t, r, L, n, s) ==
    /\ r \in Trees /\ r.root = Moved(n, s, t.root)
    /\ \A q \in Sides, a \in L : r.kid[q][Moved(n, s, a)] = Moved(n, s, t.kid[q][a])
    /\ \A q \in Sides, d \in Nodes : d \notin Ren(L, n, s) => r.kid[q][d] = Null
    /\ \A q \in Sides : r.kid[q][Sentinel] = Sentinel
    /\ \A a \in L : a # t.root => r.parent[Moved(n, s, a)] = Moved(n, s, t.parent[a])
    /\ \A a \in L \cup {Sentinel} : r.red[Moved(n, s, a)] = t.red[a]
RenSub(sub, n, s) ==
    [m \in Ptrs |-> IF m = s THEN Ren(sub[n], n, s) ELSE IF m = n THEN {n} ELSE Ren(sub[m], n, s)]

\* What moving does to the members of a set.
LEMMA MovedIs ==
    ASSUME NEW L, NEW n, NEW s, s \notin L, n # s
    PROVE  /\ \A a \in L : Moved(n, s, a) \in Ren(L, n, s)
           /\ \A a \in L, b \in L : Moved(n, s, a) = Moved(n, s, b) => a = b
           /\ \A x \in Ren(L, n, s) : \E a \in L : x = Moved(n, s, a)
           /\ n \notin Ren(L, n, s)
  BY DEF Moved, Ren

\* Three sets that make up a node's keep doing so.
LEMMA RenNest ==
    ASSUME NEW A, NEW B, NEW n, NEW s, s \notin A, s \notin B, NEW m, m # s, n # s,
           m \notin A, m \notin B, A \cap B = {}
    PROVE  /\ Ren({m} \cup A \cup B, n, s) = {Moved(n, s, m)} \cup Ren(A, n, s) \cup Ren(B, n, s)
           /\ Moved(n, s, m) \notin Ren(A, n, s) /\ Moved(n, s, m) \notin Ren(B, n, s)
           /\ Ren(A, n, s) \cap Ren(B, n, s) = {}
  BY DEF Moved, Ren

\* What is below a node that has moved, or not.
LEMMA RenBelow ==
    ASSUME NEW t, NEW sub, NEW L, NEW pos, NEW key, Kept(t, sub, L, pos, key),
           NEW n \in L, NEW s \in Nodes, s \notin L
    PROVE  /\ n \in Nodes /\ n # s /\ L \subseteq Nodes /\ Ren(L, n, s) \subseteq Nodes
           /\ Sentinel \notin L /\ Moved(n, s, Sentinel) = Sentinel
           /\ RenSub(sub, n, s) \in [Ptrs -> SUBSET Nodes]
           /\ \A k \in L \cup {Sentinel} : /\ RenSub(sub, n, s)[Moved(n, s, k)] = Ren(sub[k], n, s)
                                           /\ Moved(n, s, k) \in Cells /\ sub[k] \subseteq L
           /\ \A k \in Ptrs : k \notin Ren(L, n, s) /\ k \in Nodes => RenSub(sub, n, s)[k] = {k}
           /\ RenSub(sub, n, s)[Sentinel] = {} /\ RenSub(sub, n, s)[Null] = {}
<1>1. Shaped(t, sub) /\ SubOK(sub) /\ L = sub[t.root] /\ L \subseteq Nodes /\ n \in Nodes /\ n # s
  <2>1. Shaped(t, sub) /\ SubOK(sub) /\ L = sub[t.root]
    BY DEF Kept, Shaped
  <2> QED
    BY <2>1, KeptNode
<1>2. Sentinel \notin L /\ Moved(n, s, Sentinel) = Sentinel /\ Ren(L, n, s) \subseteq Nodes
  BY <1>1, CellsAre DEF Moved, Ren
<1>3. \A k \in L \cup {Sentinel} : sub[k] \subseteq L /\ k \in Ptrs /\ k # s
  <2>1. \A k \in L : sub[k] \subseteq L
    BY <1>1, LinkedIs
  <2> QED
    BY <1>1, <1>2, <2>1, CellsAre DEF SubOK
<1>4. \A k \in Ptrs : RenSub(sub, n, s)[k] =
                        (IF k = s THEN Ren(sub[n], n, s) ELSE IF k = n THEN {n} ELSE Ren(sub[k], n, s))
  BY DEF RenSub
<1>5. ASSUME NEW k \in L \cup {Sentinel}
      PROVE  RenSub(sub, n, s)[Moved(n, s, k)] = Ren(sub[k], n, s) /\ Moved(n, s, k) \in Cells
  <2>1. s \in Ptrs /\ k \in Ptrs /\ k # s /\ k \in Cells
    BY <1>1, <1>3, CellsAre
  <2>2. CASE k = n
    BY <1>4, <2>1, <2>2, CellsAre DEF Moved
  <2>3. CASE k # n
    BY <1>4, <2>1, <2>3, CellsAre DEF Moved
  <2> QED
    BY <2>2, <2>3
<1>6. ASSUME NEW k \in Ptrs PROVE Ren(sub[k], n, s) \in SUBSET Nodes
  BY <1>1 DEF SubOK, Ren
<1>7. RenSub(sub, n, s) \in [Ptrs -> SUBSET Nodes]
  <2>1. Ren(sub[n], n, s) \in SUBSET Nodes
    BY <1>1, <1>6, CellsAre
  <2> QED
    BY <1>1, <1>6, <2>1 DEF RenSub
<1>8. ASSUME NEW k \in Nodes, k \notin Ren(L, n, s) PROVE RenSub(sub, n, s)[k] = {k}
  <2>1. k # s
    BY <1>8 DEF Ren
  <2>2. CASE k = n
    BY <1>1, <1>4, <2>1, <2>2, CellsAre
  <2>3. CASE k # n
    <3>1. k \notin L
      BY <1>8, <2>3 DEF Ren
    <3>2. \A q \in Sides : t.kid[q][k] = Null
      BY <1>1, <3>1 DEF Shaped, Leaved
    <3>3. sub[k] = {k}
      <4>1. "left" \in Sides /\ Other("left") \in Sides
        BY SidesAre
      <4>2. NestAt(t, sub, k, "left")
        BY <1>1, <4>1, NestAtIs
      <4>3. t.kid["left"][k] = Null /\ t.kid[Other("left")][k] = Null
        BY <3>2, <4>1
      <4> QED
        BY <1>1, <4>2, <4>3 DEF NestAt, SubOK
    <3>4. RenSub(sub, n, s)[k] = Ren({k}, n, s)
      BY <1>4, <2>1, <2>3, <3>3, CellsAre
    <3> QED
      BY <2>3, <3>4 DEF Ren
  <2> QED
    BY <2>2, <2>3
<1>9. RenSub(sub, n, s)[Sentinel] = {} /\ RenSub(sub, n, s)[Null] = {}
  BY <1>1, <1>4, CellsAre DEF SubOK, Ren
<1> QED
  BY <1>1, <1>2, <1>3, <1>5, <1>7, <1>8, <1>9

\* Renaming keeps what Kept says.
LEMMA RenamedKept ==
    ASSUME NEW t, NEW sub, NEW L, NEW pos, NEW key, Kept(t, sub, L, pos, key),
           NEW n \in L, NEW s \in Nodes, s \notin L, NEW r, Renamed(t, r, L, n, s),
           NEW sub2, sub2 = RenSub(sub, n, s), NEW L2, L2 = Ren(L, n, s),
           NEW pos2, pos2 = [pos EXCEPT ![s] = pos[n]]
    PROVE  Kept(r, sub2, L2, pos2, r.key)
<1> DEFINE to(x) == Moved(n, s, x)
<1> HIDE DEF to
<1>1. /\ Shaped(t, sub) /\ t \in Trees /\ SubOK(sub) /\ L = sub[t.root] /\ t.root \in L
      /\ pos \in [Nodes -> Int] /\ ~t.red[Sentinel]
  <2>1. Shaped(t, sub) /\ t \in Trees /\ SubOK(sub) /\ L = sub[t.root]
        /\ pos \in [Nodes -> Int] /\ ~t.red[Sentinel]
    BY DEF Kept, Shaped, Sorted
  <2> QED
    BY <2>1, KeptNode
<1>2. /\ n \in Nodes /\ n # s /\ L \subseteq Nodes /\ L2 \subseteq Nodes
      /\ Sentinel \notin L /\ to(Sentinel) = Sentinel
      /\ sub2 \in [Ptrs -> SUBSET Nodes]
      /\ \A k \in L \cup {Sentinel} : sub2[to(k)] = Ren(sub[k], n, s) /\ to(k) \in Cells /\ sub[k] \subseteq L
      /\ \A k \in Nodes : k \notin L2 => sub2[k] = {k}
      /\ sub2[Sentinel] = {} /\ sub2[Null] = {}
  <2>1. /\ n \in Nodes /\ n # s /\ L \subseteq Nodes /\ Ren(L, n, s) \subseteq Nodes
        /\ Sentinel \notin L /\ Moved(n, s, Sentinel) = Sentinel
        /\ RenSub(sub, n, s) \in [Ptrs -> SUBSET Nodes]
        /\ \A k \in L \cup {Sentinel} : /\ RenSub(sub, n, s)[Moved(n, s, k)] = Ren(sub[k], n, s)
                                        /\ Moved(n, s, k) \in Cells /\ sub[k] \subseteq L
        /\ \A k \in Ptrs : k \notin Ren(L, n, s) /\ k \in Nodes => RenSub(sub, n, s)[k] = {k}
        /\ RenSub(sub, n, s)[Sentinel] = {} /\ RenSub(sub, n, s)[Null] = {}
    BY RenBelow
  <2> QED
    BY <2>1, CellsAre DEF to
<1>3. /\ \A a \in L : to(a) \in L2
      /\ \A a \in L, b \in L : to(a) = to(b) => a = b
      /\ \A x \in L2 : \E a \in L : x = to(a)
  BY <1>2, MovedIs DEF to
<1>4. /\ r \in Trees /\ r.root = to(t.root)
      /\ \A q \in Sides, a \in L : r.kid[q][to(a)] = to(t.kid[q][a])
      /\ \A q \in Sides, d \in Nodes : d \notin L2 => r.kid[q][d] = Null
      /\ \A q \in Sides : r.kid[q][Sentinel] = Sentinel
      /\ \A a \in L : a # t.root => r.parent[to(a)] = to(t.parent[a])
      /\ r.red[to(Sentinel)] = t.red[Sentinel]
  BY DEF Renamed, to
<1>5. ASSUME NEW a \in L, NEW q \in Sides
      PROVE  /\ t.kid[q][a] \in L \cup {Sentinel} /\ t.kid[q][a] # t.root
             /\ t.kid[q][a] # Sentinel => t.parent[t.kid[q][a]] = a
             /\ sub2[r.kid[q][to(a)]] = Ren(sub[t.kid[q][a]], n, s)
             /\ r.kid[q][to(a)] \in Cells
  <2>1. t.kid[q][a] \in L \cup {Sentinel} /\ t.kid[q][a] # t.root
        /\ (t.kid[q][a] # Sentinel => t.parent[t.kid[q][a]] = a)
    BY KeptNode
  <2> QED
    BY <1>2, <1>4, <2>1
<1>6. SubOK(sub2)
  BY <1>2 DEF SubOK
<1>7. Nested(r, sub2)
  <2>1. ASSUME NEW m \in Nodes PROVE NestAt(r, sub2, m, "left")
    <3>1. "left" \in Sides /\ Other("left") \in Sides
      BY SidesAre
    <3>2. CASE m \in L2
      <4>1. PICK a \in L : m = to(a)
        BY <1>3, <3>2
      <4>2. PICK A : A = sub[t.kid["left"][a]]
        OBVIOUS
      <4>3. PICK B : B = sub[t.kid[Other("left")][a]]
        OBVIOUS
      <4>4. sub[a] = {a} \cup A \cup B /\ a \notin A /\ a \notin B /\ A \cap B = {}
        <5>1. NestAt(t, sub, a, "left")
          BY <1>1, <1>2, <3>1, NestAtIs
        <5> QED
          BY <4>2, <4>3, <5>1 DEF NestAt
      <4>5. s \notin A /\ s \notin B /\ a # s
        <5>1. sub[a] \subseteq L
          BY <1>2
        <5> QED
          BY <4>4, <5>1
      <4>6. sub2[m] = Ren(sub[a], n, s)
        BY <1>2, <4>1
      <4>7. sub2[r.kid["left"][m]] = Ren(A, n, s) /\ sub2[r.kid[Other("left")][m]] = Ren(B, n, s)
        BY <1>5, <3>1, <4>1, <4>2, <4>3
      <4>8. /\ Ren({a} \cup A \cup B, n, s) = {m} \cup Ren(A, n, s) \cup Ren(B, n, s)
            /\ m \notin Ren(A, n, s) /\ m \notin Ren(B, n, s)
            /\ Ren(A, n, s) \cap Ren(B, n, s) = {}
        <5>1. a \notin A /\ a \notin B /\ A \cap B = {} /\ s \notin A /\ s \notin B /\ a # s /\ n # s
          BY <1>2, <4>4, <4>5
        <5>2. m = Moved(n, s, a)
          BY <4>1 DEF to
        <5>3. /\ Ren({a} \cup A \cup B, n, s) = {Moved(n, s, a)} \cup Ren(A, n, s) \cup Ren(B, n, s)
              /\ Moved(n, s, a) \notin Ren(A, n, s) /\ Moved(n, s, a) \notin Ren(B, n, s)
              /\ Ren(A, n, s) \cap Ren(B, n, s) = {}
          BY <5>1, RenNest
        <5> QED
          BY <5>2, <5>3
      <4>9. sub2[m] = {m} \cup Ren(A, n, s) \cup Ren(B, n, s)
        BY <4>4, <4>6, <4>8
      <4> QED
        BY <4>7, <4>8, <4>9 DEF NestAt
    <3>3. CASE m \notin L2
      <4>1. sub2[m] = {m} /\ r.kid["left"][m] = Null /\ r.kid[Other("left")][m] = Null
        BY <1>2, <1>4, <3>1, <3>3
      <4> QED
        BY <1>2, <4>1 DEF NestAt
    <3> QED
      BY <3>2, <3>3
  <2>2. "left" \in Sides
    BY SidesAre
  <2> QED
    BY <2>1, <2>2, NestedFrom
<1>8. sub2[r.root] = L2
  BY <1>1, <1>2, <1>4
<1>9. Leaved(r, sub2)
  <2>1. ASSUME NEW m \in Nodes, NEW q \in Sides PROVE r.kid[q][m] # Null <=> m \in L2
    <3>1. CASE m \in L2
      <4>1. PICK a \in L : m = to(a)
        BY <1>3, <3>1
      <4> QED
        BY <1>5, <3>1, <4>1, CellsAre
    <3>2. CASE m \notin L2
      BY <1>4, <3>2
    <3> QED
      BY <3>1, <3>2
  <2> QED
    BY <1>4, <1>8, <2>1 DEF Leaved
<1>10. Parented(r, sub2)
  <2>1. ASSUME NEW m \in Nodes, NEW q \in Sides, r.kid[q][m] \in Nodes PROVE r.parent[r.kid[q][m]] = m
    <3>1. m \in L2
      BY <1>4, <2>1, CellsAre
    <3>2. PICK a \in L : m = to(a)
      BY <1>3, <3>1
    <3>3. r.kid[q][m] = to(t.kid[q][a])
      BY <1>4, <3>2
    <3>4. t.kid[q][a] # Sentinel
      BY <1>2, <2>1, <3>3, CellsAre
    <3>5. t.kid[q][a] \in L /\ t.kid[q][a] # t.root /\ t.parent[t.kid[q][a]] = a
      BY <1>5, <3>4
    <3> QED
      BY <1>4, <3>2, <3>3, <3>5
  <2>2. ASSUME NEW m \in L2, m # r.root PROVE r.parent[m] \in L2 /\ Hangs(r, m)
    <3>1. PICK a \in L : m = to(a)
      BY <1>3
    <3>2. a # t.root
      BY <1>4, <2>2, <3>1
    <3>3. t.parent[a] \in L /\ t.kid[SideOf(t, a)][t.parent[a]] = a /\ SideOf(t, a) \in Sides
      BY <3>2, KeptNode
    <3>4. r.parent[m] = to(t.parent[a])
      BY <1>4, <3>1, <3>2
    <3>5. r.kid[SideOf(t, a)][r.parent[m]] = m
      BY <1>4, <3>1, <3>3, <3>4
    <3> QED
      BY <1>3, <3>3, <3>4, <3>5 DEF Hangs
  <2> QED
    BY <1>8, <2>1, <2>2 DEF Parented
<1>11. Shaped(r, sub2)
  BY <1>4, <1>6, <1>7, <1>9, <1>10 DEF Shaped
<1>12. pos2 \in [Nodes -> Int] /\ \A a \in L : pos2[to(a)] = pos[a]
  BY <1>1, <1>2 DEF to, Moved
<1>13. Sorted(r, sub2, pos2)
  <2> SUFFICES ASSUME NEW x \in L2, NEW q \in Sides, NEW y \in sub2[r.kid[q][x]]
               PROVE  Toward(q, pos2[y], pos2[x])
    BY <1>8, <1>12 DEF Sorted, SortedAt
  <2>1. PICK a \in L : x = to(a)
    BY <1>3
  <2>2. y \in Ren(sub[t.kid[q][a]], n, s) /\ sub[t.kid[q][a]] \subseteq L
    BY <1>2, <1>5, <2>1
  <2>3. s \notin sub[t.kid[q][a]]
    BY <2>2
  <2>4. PICK m \in sub[t.kid[q][a]] : y = to(m)
    BY <1>2, <2>2, <2>3, MovedIs DEF to
  <2>5. Toward(q, pos[m], pos[a])
    BY <1>1 DEF Kept, Sorted, SortedAt
  <2> QED
    BY <1>12, <2>1, <2>2, <2>4, <2>5
<1>14. ~r.red[Sentinel]
  BY <1>1, <1>2, <1>4
<1> QED
  BY <1>8, <1>11, <1>13, <1>14 DEF Kept

\* The colours, and the numbers of black nodes below, move along.
LEMMA RenamedNode ==
    ASSUME NEW t, NEW sub, NEW L, NEW pos, NEW key, Kept(t, sub, L, pos, key),
           NEW n \in L, NEW s \in Nodes, s \notin L, NEW r, Renamed(t, r, L, n, s),
           NEW a \in L, NEW q \in Sides
    PROVE  /\ t.kid[q][a] \in L \cup {Sentinel} /\ r.kid[q][Moved(n, s, a)] = Moved(n, s, t.kid[q][a])
           /\ r.red[Moved(n, s, a)] = t.red[a]
           /\ r.red[r.kid[q][Moved(n, s, a)]] = t.red[t.kid[q][a]]
           /\ Black(r, Moved(n, s, a)) = Black(t, a)
<1>1. t.kid[q][a] \in L \cup {Sentinel}
  BY KeptNode
<1>2. r.kid[q][Moved(n, s, a)] = Moved(n, s, t.kid[q][a])
  BY DEF Renamed
<1>3. r.red[Moved(n, s, a)] = t.red[a]
  BY DEF Renamed
<1>4. r.red[Moved(n, s, t.kid[q][a])] = t.red[t.kid[q][a]]
  BY <1>1 DEF Renamed
<1> QED
  BY <1>1, <1>2, <1>3, <1>4 DEF Black

\* The new name has the height of the old.
MovedHeights(h, f, n, s) == h \in [Cells -> Nat] /\ h[Sentinel] = 0 /\ f = [h EXCEPT ![s] = h[n]]

\* Renaming keeps the heights, lack or not.
LEMMA RenamedHeights ==
    ASSUME NEW t, NEW sub, NEW L, NEW pos, NEW key, Kept(t, sub, L, pos, key),
           NEW n \in L, NEW s \in Nodes, s \notin L, NEW r, Renamed(t, r, L, n, s),
           NEW h, NEW f, MovedHeights(h, f, n, s)
    PROVE  /\ f \in [Cells -> Nat] /\ f[Sentinel] = 0
           /\ \A a \in L, q \in Sides : EvenAt(t, h, a, q) => EvenAt(r, f, Moved(n, s, a), q)
           /\ \A a \in L, q \in Sides : ShortAt(t, h, a, q) => ShortAt(r, f, Moved(n, s, a), q)
<1>1. n \in Nodes /\ n # s /\ L \subseteq Nodes /\ Sentinel \notin L
  BY RenBelow
<1>2. f \in [Cells -> Nat] /\ f[Sentinel] = 0 /\ \A k \in L \cup {Sentinel} : f[Moved(n, s, k)] = h[k]
  BY <1>1, CellsAre DEF Moved, MovedHeights
<1>3. ASSUME NEW a \in L, NEW q \in Sides
      PROVE  /\ f[Moved(n, s, a)] = h[a] /\ f[r.kid[q][Moved(n, s, a)]] = h[t.kid[q][a]]
             /\ Black(r, Moved(n, s, a)) = Black(t, a)
  <2>1. /\ t.kid[q][a] \in L \cup {Sentinel} /\ r.kid[q][Moved(n, s, a)] = Moved(n, s, t.kid[q][a])
        /\ Black(r, Moved(n, s, a)) = Black(t, a)
    BY RenamedNode
  <2> QED
    BY <1>2, <2>1
<1>4. ASSUME NEW a \in L, NEW q \in Sides
      PROVE  /\ EvenAt(t, h, a, q) => EvenAt(r, f, Moved(n, s, a), q)
             /\ ShortAt(t, h, a, q) => ShortAt(r, f, Moved(n, s, a), q)
  BY <1>3 DEF EvenAt, ShortAt
<1> QED
  BY <1>2, <1>4

\* A renamed balanced tree is balanced.
LEMMA RenamedBalanced ==
    ASSUME NEW t, NEW sub, NEW L, NEW pos, NEW key, Balanced(t, sub, L, pos, key),
           NEW n \in L, NEW s \in Nodes, s \notin L, NEW r, Renamed(t, r, L, n, s)
    PROVE  Balanced(r, RenSub(sub, n, s), Ren(L, n, s), [pos EXCEPT ![s] = pos[n]], r.key)
<1>1. Kept(t, sub, L, pos, key) /\ ~t.red[t.root]
  BY DEF Balanced
<1>2. n # s /\ L \subseteq Nodes /\ Ren(L, n, s) \subseteq Nodes /\ t.root \in L
  BY <1>1, RenBelow, KeptNode
<1>3. \A x \in Ren(L, n, s) : \E a \in L : x = Moved(n, s, a)
  BY <1>2, MovedIs
<1>4. Kept(r, RenSub(sub, n, s), Ren(L, n, s), [pos EXCEPT ![s] = pos[n]], r.key)
  BY <1>1, RenamedKept
<1>5. PICK h : h \in [Cells -> Nat] /\ h[Sentinel] = 0 /\ \A a \in L, q \in Sides : EvenAt(t, h, a, q)
  BY <1>2, EvenIs DEF Balanced
<1>6. PICK f : MovedHeights(h, f, n, s)
  BY <1>5 DEF MovedHeights
<1>7. /\ f \in [Cells -> Nat] /\ f[Sentinel] = 0
      /\ \A a \in L, q \in Sides : EvenAt(r, f, Moved(n, s, a), q)
  BY <1>1, <1>5, <1>6, RenamedHeights
<1>8. Even(r, Ren(L, n, s), f)
  <2>1. \A x \in Ren(L, n, s), q \in Sides : EvenAt(r, f, x, q)
    BY <1>3, <1>7
  <2> QED
    BY <1>2, <1>7, <2>1, EvenIs
<1>9. ASSUME NEW x \in Ren(L, n, s), NEW q \in Sides PROVE ~(r.red[x] /\ r.red[r.kid[q][x]])
  <2>1. PICK a \in L : x = Moved(n, s, a)
    BY <1>3
  <2>2. r.red[x] = t.red[a] /\ r.red[r.kid[q][x]] = t.red[t.kid[q][a]]
    BY <1>1, <2>1, RenamedNode
  <2>3. ~(t.red[a] /\ t.red[t.kid[q][a]])
    BY DEF Balanced
  <2> QED
    BY <2>2, <2>3
<1>10. ~r.red[r.root]
  <2>1. r.root = Moved(n, s, t.root) /\ r.red[Moved(n, s, t.root)] = t.red[t.root]
    BY <1>2 DEF Renamed
  <2> QED
    BY <1>1, <2>1
<1> QED
  BY <1>4, <1>8, <1>9, <1>10 DEF Balanced

\* A renamed tree lacks where the old one did.
LEMMA RenamedLack ==
    ASSUME NEW t, NEW sub, NEW L, NEW pos, NEW key, NEW c, LackAt(t, c, sub, L, pos, key),
           NEW n \in L, NEW s \in Nodes, s \notin L, NEW r, Renamed(t, r, L, n, s),
           c = t.root \/ r.parent[Moved(n, s, c)] = Moved(n, s, t.parent[c])
    PROVE  LackAt(r, Moved(n, s, c), RenSub(sub, n, s), Ren(L, n, s), [pos EXCEPT ![s] = pos[n]], r.key)
<1>1. Kept(t, sub, L, pos, key) /\ c \in Cells /\ t.root \in L
  BY DEF LackAt
<1>2. /\ n # s /\ L \subseteq Nodes /\ Ren(L, n, s) \subseteq Nodes
      /\ \A k \in L \cup {Sentinel} : Moved(n, s, k) \in Cells
      /\ Sentinel \notin L /\ Moved(n, s, Sentinel) = Sentinel /\ s \in Cells /\ s # Sentinel
  BY <1>1, RenBelow, CellsAre
<1>3. /\ \A x \in Ren(L, n, s) : \E a \in L : x = Moved(n, s, a)
      /\ \A a \in L : Moved(n, s, a) \in Ren(L, n, s)
      /\ \A a \in L, b \in L : Moved(n, s, a) = Moved(n, s, b) => a = b
  BY <1>2, MovedIs
<1>4. Kept(r, RenSub(sub, n, s), Ren(L, n, s), [pos EXCEPT ![s] = pos[n]], r.key)
  BY <1>1, RenamedKept
<1>5. c \in L \cup {Sentinel}
  <2>1. CASE c = t.root
    BY <1>1, <2>1
  <2>2. CASE c # t.root
    <3>1. t.parent[c] \in L /\ t.kid[SideOf(t, c)][t.parent[c]] = c /\ SideOf(t, c) \in Sides
      BY <2>2, SideOfIs DEF LackAt
    <3> QED
      BY <1>1, <3>1, KeptNode
  <2> QED
    BY <2>1, <2>2
<1>6. \A a \in L \cup {Sentinel}, b \in L \cup {Sentinel} : Moved(n, s, a) = Moved(n, s, b) => a = b
  BY <1>2 DEF Moved
<1>7. r.root = Moved(n, s, t.root) /\ r.red[Moved(n, s, t.root)] = t.red[t.root]
  BY <1>1 DEF Renamed
<1>8. ASSUME NEW x \in Ren(L, n, s), NEW q \in Sides, r.red[x] /\ r.red[r.kid[q][x]]
      PROVE  x = Moved(n, s, c) \/ r.kid[q][x] = Moved(n, s, c)
  <2>1. PICK a \in L : x = Moved(n, s, a)
    BY <1>3
  <2>2. /\ r.red[x] = t.red[a] /\ r.red[r.kid[q][x]] = t.red[t.kid[q][a]]
        /\ r.kid[q][x] = Moved(n, s, t.kid[q][a])
    BY <1>1, <2>1, RenamedNode
  <2>3. t.red[a] /\ t.red[t.kid[q][a]]
    BY <1>8, <2>2
  <2>4. a = c \/ t.kid[q][a] = c
    BY <2>3 DEF LackAt
  <2> QED
    BY <2>1, <2>2, <2>4
<1>9. r.root \in Ren(L, n, s) /\ (r.red[r.root] => Moved(n, s, c) = r.root)
  <2>1. t.red[t.root] => c = t.root
    BY DEF LackAt
  <2> QED
    BY <1>1, <1>3, <1>7, <2>1
<1>10. ASSUME Moved(n, s, c) = r.root PROVE \E f : Even(r, Ren(L, n, s), f)
  <2>1. c = t.root
    BY <1>1, <1>5, <1>6, <1>7, <1>10
  <2>2. PICK h : h \in [Cells -> Nat] /\ h[Sentinel] = 0 /\ \A a \in L, q \in Sides : EvenAt(t, h, a, q)
    BY <1>2, <2>1, EvenIs DEF LackAt
  <2>3. PICK f : MovedHeights(h, f, n, s)
    BY <2>2 DEF MovedHeights
  <2>4. /\ f \in [Cells -> Nat] /\ f[Sentinel] = 0
        /\ \A a \in L, q \in Sides : EvenAt(r, f, Moved(n, s, a), q)
    BY <1>1, <2>2, <2>3, RenamedHeights
  <2>5. \A x \in Ren(L, n, s), q \in Sides : EvenAt(r, f, x, q)
    BY <1>3, <2>4
  <2> QED
    BY <1>2, <2>4, <2>5, EvenIs
<1>11. ASSUME Moved(n, s, c) # r.root
       PROVE  /\ r.parent[Moved(n, s, c)] \in Ren(L, n, s)
              /\ r.kid[SideOf(r, Moved(n, s, c))][r.parent[Moved(n, s, c)]] = Moved(n, s, c)
              /\ \E f : Heights(r, Ren(L, n, s), f, r.parent[Moved(n, s, c)], SideOf(r, Moved(n, s, c)))
  <2>1. c # t.root
    BY <1>7, <1>11
  <2>2. PICK p : p = t.parent[c]
    OBVIOUS
  <2>3. PICK side : side = SideOf(t, c)
    OBVIOUS
  <2>4. p \in L /\ t.kid[side][p] = c /\ side \in Sides
    BY <2>1, <2>2, <2>3, SideOfIs DEF LackAt
  <2>5. r.parent[Moved(n, s, c)] = Moved(n, s, p)
    BY <2>1, <2>2
  <2>6. \A q \in Sides : t.kid[q][p] \in L \cup {Sentinel} /\ r.kid[q][Moved(n, s, p)] = Moved(n, s, t.kid[q][p])
    BY <1>1, <2>4, RenamedNode
  <2>7. SideOf(r, Moved(n, s, c)) = side
    <3>1. "left" \in Sides
      BY SidesAre
    <3>2. Moved(n, s, c) = r.kid["left"][r.parent[Moved(n, s, c)]] <=> c = t.kid["left"][p]
      BY <1>5, <1>6, <2>5, <2>6, <3>1
    <3> QED
      BY <2>2, <2>3, <3>2 DEF SideOf
  <2>8. PICK h : /\ h \in [Cells -> Nat] /\ h[Sentinel] = 0
                 /\ \A a \in L, q \in Sides : IF a = p /\ q = side THEN ShortAt(t, h, a, q) ELSE EvenAt(t, h, a, q)
    <3>1. PICK h : Heights(t, L, h, p, side)
      BY <2>1, <2>2, <2>3 DEF LackAt
    <3> QED
      BY <3>1, ShortIs
  <2>9. PICK f : MovedHeights(h, f, n, s)
    BY <2>8 DEF MovedHeights
  <2>10. /\ f \in [Cells -> Nat] /\ f[Sentinel] = 0
         /\ \A a \in L, q \in Sides : EvenAt(t, h, a, q) => EvenAt(r, f, Moved(n, s, a), q)
         /\ \A a \in L, q \in Sides : ShortAt(t, h, a, q) => ShortAt(r, f, Moved(n, s, a), q)
    BY <1>1, <2>8, <2>9, RenamedHeights
  <2>11. ASSUME NEW x \in Ren(L, n, s), NEW q \in Sides
         PROVE  IF x = Moved(n, s, p) /\ q = side THEN ShortAt(r, f, x, q) ELSE EvenAt(r, f, x, q)
    <3>1. PICK a \in L : x = Moved(n, s, a)
      BY <1>3
    <3>2. x = Moved(n, s, p) <=> a = p
      BY <1>3, <2>4, <3>1
    <3> QED
      BY <2>8, <2>10, <3>1, <3>2
  <2>12. Heights(r, Ren(L, n, s), f, Moved(n, s, p), side)
    BY <2>10, <2>11, ShortIs
  <2> QED
    BY <1>3, <2>4, <2>5, <2>6, <2>7, <2>12
<1>12. Moved(n, s, c) \in Cells
  BY <1>2, <1>5
<1> QED
  BY <1>4, <1>8, <1>9, <1>10, <1>11, <1>12 DEF LackAt

----------------------------------------------------------------------------
(* Deletion: the stores. *)
KidsStored(t, r, n, x, y) ==
    /\ r \in Trees /\ r.root = t.root /\ r.parent = t.parent /\ r.red = t.red /\ r.key = t.key
    /\ r.kid["left"][n] = x /\ r.kid["right"][n] = y
    /\ \A q \in Sides, d \in Cells : d # n => r.kid[q][d] = t.kid[q][d]
Cleared(t, r, n) ==
    /\ r \in Trees /\ r.root = t.root /\ r.red = t.red
    /\ \A q \in Sides : r.kid[q][n] = Null
    /\ \A q \in Sides, d \in Cells : d # n => r.kid[q][d] = t.kid[q][d]
    /\ \A d \in Cells : d # n => r.parent[d] = t.parent[d]
    /\ r.key = [t.key EXCEPT ![n] = 0]

\* Two children are stored.
LEMMA KidsSet ==
    ASSUME NEW t \in Trees, NEW n \in Cells, NEW x \in Ptrs, NEW y \in Ptrs
    PROVE  KidsStored(t, SetKid(SetKid(t, "left", n, x), "right", n, y), n, x, y)
<1>1. "left" \in Sides /\ "right" \in Sides
  BY DEF Sides
<1>2. PICK t1 : t1 = SetKid(t, "left", n, x)
  OBVIOUS
<1>3. KidStored(t, t1, "left", n, x) /\ t1 \in Trees
  <2>1. KidStored(t, t1, "left", n, x)
    BY <1>1, <1>2, KidSet
  <2> QED
    BY <2>1 DEF KidStored
<1>4. PICK t2 : t2 = SetKid(t1, "right", n, y)
  OBVIOUS
<1>5. KidStored(t1, t2, "right", n, y)
  BY <1>1, <1>3, <1>4, KidSet
<1>6. t2.kid["left"][n] = x
  BY <1>1, <1>3, <1>5 DEF KidStored
<1>7. \A q \in Sides, d \in Cells : d # n => t2.kid[q][d] = t.kid[q][d]
  BY <1>3, <1>5 DEF KidStored
<1>8. KidsStored(t, t2, n, x, y)
  BY <1>3, <1>5, <1>6, <1>7 DEF KidStored, KidsStored
<1> QED
  BY <1>2, <1>4, <1>8

\* The removed node's fields are empty.
LEMMA ClearIs ==
    ASSUME NEW t \in Trees, NEW n \in Cells
    PROVE  Cleared(t, Clear(t, n), n)
<1>1. PICK t1 : t1 = SetKid(SetKid(t, "left", n, Null), "right", n, Null)
  OBVIOUS
<1>2. KidsStored(t, t1, n, Null, Null) /\ t1 \in Trees
  <2>1. KidsStored(t, t1, n, Null, Null)
    BY <1>1, KidsSet, CellsAre
  <2> QED
    BY <2>1 DEF KidsStored
<1>3. PICK t2 : t2 = SetParent(t1, n, Null)
  OBVIOUS
<1>4. ParentStored(t1, t2, n, Null) /\ t2 \in Trees
  <2>1. ParentStored(t1, t2, n, Null)
    BY <1>2, <1>3, ParentSet, CellsAre
  <2> QED
    BY <2>1 DEF ParentStored
<1>5. PICK r : r = SetKey(t2, n, 0)
  OBVIOUS
<1>6. KeyStored(t2, r, n, 0) /\ r.key = [t2.key EXCEPT ![n] = 0]
  <2>1. KeyStored(t2, r, n, 0)
    BY <1>4, <1>5, KeySet
  <2>2. r.key = [t2.key EXCEPT ![n] = 0]
    BY <1>4, <1>5 DEF SetKey, Trees
  <2> QED
    BY <2>1, <2>2
<1>7. r \in Trees /\ r.root = t.root /\ r.red = t.red /\ r.kid = t1.kid /\ r.key = [t.key EXCEPT ![n] = 0]
  BY <1>2, <1>4, <1>6 DEF KidsStored, ParentStored, KeyStored
<1>8. \A q \in Sides : r.kid[q][n] = Null
  BY <1>2, <1>7 DEF KidsStored, Sides
<1>9. \A d \in Cells : d # n => r.parent[d] = t.parent[d]
  BY <1>2, <1>4, <1>6 DEF KidsStored, ParentStored, KeyStored
<1>10. Cleared(t, r, n)
  BY <1>2, <1>7, <1>8, <1>9 DEF Cleared, KidsStored
<1> QED
  BY <1>1, <1>3, <1>5, <1>10 DEF Clear

\* The removed node's key is 0.
KeyGone(t, r, n) == r.key = [t.key EXCEPT ![n] = 0]

\* A node with a free side that is not the root is cut out so.
LEMMA CutIs ==
    ASSUME NEW t \in Trees, NEW s \in Cells, s # t.root, NEW c \in Cells, c # s,
           t.parent[s] \in Cells, t.parent[s] # s,
           NEW t1, Replaced(t, t1, s, c), NEW t2, ParentStored(t1, t2, c, t.parent[s]), NEW r, Cleared(t2, r, s)
    PROVE  Cut(t, r, s, c) /\ r.red = t.red /\ KeyGone(t, r, s)
<1> DEFINE p == t.parent[s]
<1>1. r \in Trees /\ r.root = t.root /\ r.red = t.red /\ r.key = [t.key EXCEPT ![s] = 0]
  BY DEF Replaced, ParentStored, Cleared
<1>2. PICK side : side = SideOf(t, s)
  OBVIOUS
<1>3. side \in Sides
  BY <1>2, SideOfIs
<1>4. t1.kid[side][p] = c /\ \A q \in Sides, d \in Cells : q # side \/ d # p => t1.kid[q][d] = t.kid[q][d]
  BY <1>2 DEF Replaced
<1>5. /\ \A q \in Sides : r.kid[q][s] = Null
      /\ \A q \in Sides, d \in Cells : d # s => r.kid[q][d] = t1.kid[q][d]
  BY DEF ParentStored, Cleared
<1>6. r.kid[side][p] = c
  BY <1>3, <1>4, <1>5
<1>7. \A q \in Sides, d \in Cells : d # s /\ (q # side \/ d # p) => r.kid[q][d] = t.kid[q][d]
  BY <1>4, <1>5
<1>8. r.parent[c] = p /\ \A d \in Cells : d # s /\ d # c => r.parent[d] = t.parent[d]
  BY DEF Replaced, ParentStored, Cleared
<1> QED
  BY <1>1, <1>2, <1>5, <1>6, <1>7, <1>8 DEF Cut, KeyGone

\* The root, with a free side, is cut out so.
LEMMA CutTopIs ==
    ASSUME NEW t \in Trees, NEW s \in Cells, s = t.root, NEW c \in Cells, c # s,
           NEW t1, Replaced(t, t1, s, c), NEW t2, Painted(t1, t2, c, FALSE), NEW r, Cleared(t2, r, s)
    PROVE  TopCut(t, r, s, c) /\ KeyGone(t, r, s)
<1>1. r \in Trees /\ r.root = c /\ r.key = [t.key EXCEPT ![s] = 0]
  BY DEF Replaced, Painted, Cleared
<1>2. /\ \A q \in Sides : r.kid[q][s] = Null
      /\ \A q \in Sides, d \in Cells : d # s => r.kid[q][d] = t.kid[q][d]
  BY DEF Replaced, Painted, Cleared
<1>3. \A d \in Cells : d # s => r.parent[d] = t.parent[d]
  BY DEF Replaced, Painted, Cleared
<1>4. ~r.red[c] /\ \A d \in Cells : d # c => r.red[d] = t.red[d]
  BY DEF Replaced, Painted, Cleared
<1>5. \A d \in Cells : r.red[d] => t.red[d]
  BY <1>4
<1> QED
  BY <1>1, <1>2, <1>3, <1>4, <1>5 DEF Cut, TopCut, KeyGone

\* Node n of q has given its place to s, and its fields are cleared.
InPlace(q, r, n, s) ==
    /\ r \in Trees
    /\ n = q.root => r.root = s
    /\ n # q.root => r.root = q.root /\ r.kid[SideOf(q, n)][q.parent[n]] = s
    /\ \A x \in Sides : r.kid[x][s] = q.kid[x][n] /\ r.kid[x][n] = Null
    /\ \A x \in Sides, d \in Cells :
         d # s /\ d # n /\ (n = q.root \/ x # SideOf(q, n) \/ d # q.parent[n]) => r.kid[x][d] = q.kid[x][d]
    /\ r.parent[s] = q.parent[n]
    /\ \A x \in Sides : q.kid[x][n] # Sentinel => r.parent[q.kid[x][n]] = s
    /\ \A d \in Cells : d # s /\ d # n /\ (d = Sentinel \/ \A x \in Sides : d # q.kid[x][n]) =>
                            r.parent[d] = q.parent[d]
    /\ r.red[s] = q.red[n] /\ \A d \in Cells : d # s => r.red[d] = q.red[d]
    /\ r.key = [q.key EXCEPT ![n] = 0]
\* What may be put in place.
CanPlace(q, n, s) ==
    /\ q \in Trees /\ n \in Nodes /\ s \in Nodes /\ n # s
    /\ \A x \in Sides : q.kid[x][n] \in Cells /\ q.kid[x][n] # n /\ q.kid[x][n] # s
    /\ q.parent[n] \in Ptrs
    /\ n # q.root => q.parent[n] \in Cells /\ q.parent[n] # n /\ q.parent[n] # s

\* The children of a node get it as their parent.
Adopted(t, r, s) ==
    /\ r \in Trees /\ r.root = t.root /\ r.kid = t.kid /\ r.red = t.red /\ r.key = t.key
    /\ \A x \in Sides : t.kid[x][s] # Sentinel => r.parent[t.kid[x][s]] = s
    /\ \A d \in Cells : d = Sentinel \/ (\A x \in Sides : d # t.kid[x][s]) => r.parent[d] = t.parent[d]

\* Both children get their parent.
LEMMA AdoptBoth ==
    ASSUME NEW t \in Trees, NEW s \in Cells, \A x \in Sides : t.kid[x][s] \in Cells
    PROVE  Adopted(t, Adopt(Adopt(t, s, "left"), s, "right"), s)
<1>1. "left" \in Sides /\ "right" \in Sides /\ \A x \in Sides : x = "left" \/ x = "right"
  BY DEF Sides
<1>2. PICK a : a = t.kid["left"][s]
  OBVIOUS
<1>3. PICK b : b = t.kid["right"][s]
  OBVIOUS
<1>4. a \in Cells /\ b \in Cells
  BY <1>1, <1>2, <1>3
<1>5. PICK t1 : t1 = Adopt(t, s, "left")
  OBVIOUS
<1>6. t1 \in Trees /\ (a = Sentinel => t1 = t) /\ (a # Sentinel => ParentStored(t, t1, a, s))
  BY <1>1, <1>2, <1>4, <1>5, AdoptIs
<1>7. /\ t1.root = t.root /\ t1.kid = t.kid /\ t1.red = t.red /\ t1.key = t.key
      /\ a # Sentinel => t1.parent[a] = s
      /\ \A d \in Cells : d = Sentinel \/ d # a => t1.parent[d] = t.parent[d]
  BY <1>4, <1>6 DEF ParentStored
<1>8. PICK r : r = Adopt(t1, s, "right")
  OBVIOUS
<1>9. r \in Trees /\ (b = Sentinel => r = t1) /\ (b # Sentinel => ParentStored(t1, r, b, s))
  <2>1. b = t1.kid["right"][s]
    BY <1>3, <1>7
  <2> QED
    BY <1>1, <1>4, <1>6, <1>8, <2>1, AdoptIs
<1>10. /\ r.root = t1.root /\ r.kid = t1.kid /\ r.red = t1.red /\ r.key = t1.key
       /\ b # Sentinel => r.parent[b] = s
       /\ \A d \in Cells : d = Sentinel \/ d # b => r.parent[d] = t1.parent[d]
  BY <1>4, <1>9 DEF ParentStored
<1>11. a # Sentinel => r.parent[a] = s
  BY <1>4, <1>7, <1>10
<1>12. \A d \in Cells : d = Sentinel \/ (d # a /\ d # b) => r.parent[d] = t.parent[d]
  BY <1>7, <1>10
<1>13. \A x \in Sides : t.kid[x][s] # Sentinel => r.parent[t.kid[x][s]] = s
  BY <1>1, <1>2, <1>3, <1>10, <1>11
<1>14. \A d \in Cells : d = Sentinel \/ (\A x \in Sides : d # t.kid[x][s]) => r.parent[d] = t.parent[d]
  BY <1>1, <1>2, <1>3, <1>12
<1>15. Adopted(t, r, s)
  BY <1>7, <1>9, <1>10, <1>13, <1>14 DEF Adopted
<1> QED
  BY <1>5, <1>8, <1>15

\* A node that took another's place is the other, renamed.
LEMMA InPlaceIs ==
    ASSUME NEW q, NEW n, NEW s, CanPlace(q, n, s)
    PROVE  InPlace(q, Clear(Transplant(q, n, s), n), n, s)
<1>1. /\ q \in Trees /\ n \in Nodes /\ s \in Nodes /\ n # s /\ n \in Cells /\ s \in Cells
      /\ n # Sentinel /\ s # Sentinel
      /\ \A x \in Sides : q.kid[x][n] \in Cells /\ q.kid[x][n] # n /\ q.kid[x][n] # s
      /\ q.parent[n] \in Ptrs
      /\ n # q.root => q.parent[n] \in Cells /\ q.parent[n] # n /\ q.parent[n] # s
  BY CellsAre DEF CanPlace
<1>2. "left" \in Sides /\ "right" \in Sides /\ \A x \in Sides : x = "left" \/ x = "right"
  BY DEF Sides
<1>3. PICK t1 : t1 = SetKid(SetKid(q, "left", s, q.kid["left"][n]), "right", s, q.kid["right"][n])
  OBVIOUS
<1>4. KidsStored(q, t1, s, q.kid["left"][n], q.kid["right"][n]) /\ t1 \in Trees
  <2>1. q.kid["left"][n] \in Ptrs /\ q.kid["right"][n] \in Ptrs
    BY <1>1, <1>2, CellsAre
  <2>2. KidsStored(q, t1, s, q.kid["left"][n], q.kid["right"][n])
    BY <1>1, <1>3, <2>1, KidsSet
  <2> QED
    BY <2>2 DEF KidsStored
<1>5. PICK ta : ta = SetParent(t1, s, q.parent[n])
  OBVIOUS
<1>6. ParentStored(t1, ta, s, q.parent[n]) /\ ta \in Trees
  <2>1. ParentStored(t1, ta, s, q.parent[n])
    BY <1>1, <1>4, <1>5, ParentSet
  <2> QED
    BY <2>1 DEF ParentStored
<1>7. PICK t2 : t2 = Paint(ta, s, q.red[n])
  OBVIOUS
<1>8. Painted(ta, t2, s, q.red[n]) /\ t2 \in Trees
  <2>1. q.red[n] \in BOOLEAN
    BY <1>1, TreeFields
  <2>2. Painted(ta, t2, s, q.red[n])
    BY <1>1, <1>6, <1>7, <2>1, PaintIs
  <2> QED
    BY <2>2 DEF Painted
<1>9. /\ t2.root = q.root /\ t2.kid = t1.kid /\ t2.key = q.key
      /\ t2.parent[s] = q.parent[n] /\ \A d \in Cells : d # s => t2.parent[d] = q.parent[d]
  BY <1>4, <1>6, <1>8 DEF KidsStored, ParentStored, Painted
<1>10. t2.red[s] = q.red[n] /\ \A d \in Cells : d # s => t2.red[d] = q.red[d]
  BY <1>4, <1>6, <1>8 DEF KidsStored, ParentStored, Painted
<1>11. /\ \A x \in Sides : t2.kid[x][s] = q.kid[x][n]
       /\ \A x \in Sides, d \in Cells : d # s => t2.kid[x][d] = q.kid[x][d]
  BY <1>2, <1>4, <1>9 DEF KidsStored
<1>12. t2.parent[n] = q.parent[n] /\ (n # q.root => SideOf(t2, n) = SideOf(q, n))
  <2>1. t2.parent[n] = q.parent[n]
    BY <1>1, <1>9
  <2>2. n # q.root => t2.kid["left"][q.parent[n]] = q.kid["left"][q.parent[n]]
    BY <1>1, <1>2, <1>11
  <2> QED
    BY <2>1, <2>2 DEF SideOf
<1>13. PICK t3 : t3 = Replace(t2, n, s)
  OBVIOUS
<1>14. Replaced(t2, t3, n, s) /\ t3 \in Trees
  <2>1. t2.parent[n] \in Cells \/ n = t2.root
    BY <1>1, <1>9, <1>12
  <2>2. Replaced(t2, t3, n, s)
    BY <1>1, <1>8, <1>13, <2>1, ReplaceIs
  <2> QED
    BY <2>2 DEF Replaced
<1>15. /\ t3.parent = t2.parent /\ t3.red = t2.red /\ t3.key = t2.key
       /\ n = q.root => t3.root = s /\ t3.kid = t2.kid
       /\ n # q.root => /\ t3.root = q.root /\ t3.kid[SideOf(q, n)][q.parent[n]] = s
                        /\ \A x \in Sides, d \in Cells :
                             x # SideOf(q, n) \/ d # q.parent[n] => t3.kid[x][d] = t2.kid[x][d]
  BY <1>9, <1>12, <1>14 DEF Replaced
<1>16. \A x \in Sides, d \in Cells :
         n = q.root \/ x # SideOf(q, n) \/ d # q.parent[n] => t3.kid[x][d] = t2.kid[x][d]
  BY <1>15
<1>17. \A x \in Sides : t3.kid[x][s] = q.kid[x][n]
  BY <1>1, <1>11, <1>16
<1>18. PICK t4 : t4 = Adopt(Adopt(t3, s, "left"), s, "right")
  OBVIOUS
<1>19. Adopted(t3, t4, s) /\ t4 \in Trees
  <2>1. \A x \in Sides : t3.kid[x][s] \in Cells
    BY <1>1, <1>17
  <2>2. Adopted(t3, t4, s)
    BY <1>1, <1>14, <1>18, <2>1, AdoptBoth
  <2> QED
    BY <2>2 DEF Adopted
<1>20. PICK r : r = Clear(t4, n)
  OBVIOUS
<1>21. Cleared(t4, r, n)
  BY <1>1, <1>19, <1>20, ClearIs
<1>22. r = Clear(Transplant(q, n, s), n)
  <2>1. t4 = Transplant(q, n, s)
    BY <1>3, <1>5, <1>7, <1>13, <1>18, Zenon DEF Transplant
  <2> QED
    BY <1>20, <2>1
<1>23. /\ r \in Trees /\ r.root = t3.root /\ r.red = t2.red /\ r.key = [q.key EXCEPT ![n] = 0]
       /\ \A x \in Sides : r.kid[x][n] = Null
       /\ \A x \in Sides, d \in Cells : d # n => r.kid[x][d] = t3.kid[x][d]
       /\ \A d \in Cells : d # n => r.parent[d] = t4.parent[d]
  BY <1>9, <1>15, <1>19, <1>21 DEF Adopted, Cleared
<1>24. /\ \A x \in Sides : q.kid[x][n] # Sentinel => t4.parent[q.kid[x][n]] = s
       /\ \A d \in Cells : d = Sentinel \/ (\A x \in Sides : d # q.kid[x][n]) => t4.parent[d] = t3.parent[d]
  BY <1>17, <1>19 DEF Adopted
<1>25. n # q.root => r.kid[SideOf(q, n)][q.parent[n]] = s
  <2>1. SideOf(q, n) \in Sides
    BY SideOfIs
  <2> QED
    BY <1>1, <1>15, <1>23, <2>1
<1>26. \A x \in Sides : r.kid[x][s] = q.kid[x][n]
  BY <1>1, <1>17, <1>23
<1>27. \A x \in Sides, d \in Cells :
         d # s /\ d # n /\ (n = q.root \/ x # SideOf(q, n) \/ d # q.parent[n]) => r.kid[x][d] = q.kid[x][d]
  BY <1>11, <1>16, <1>23
<1>28. r.parent[s] = q.parent[n]
  <2>1. \A x \in Sides : s # q.kid[x][n]
    BY <1>1
  <2>2. t4.parent[s] = t3.parent[s]
    BY <1>1, <1>24, <2>1
  <2> QED
    BY <1>1, <1>9, <1>15, <1>23, <2>2
<1>29. \A x \in Sides : q.kid[x][n] # Sentinel => r.parent[q.kid[x][n]] = s
  BY <1>1, <1>23, <1>24
<1>30. \A d \in Cells : d # s /\ d # n /\ (d = Sentinel \/ \A x \in Sides : d # q.kid[x][n]) =>
                            r.parent[d] = q.parent[d]
  <2> SUFFICES ASSUME NEW d \in Cells, d # s, d # n, d = Sentinel \/ \A x \in Sides : d # q.kid[x][n]
               PROVE  r.parent[d] = q.parent[d]
    OBVIOUS
  <2>1. t4.parent[d] = t3.parent[d]
    BY <1>24
  <2> QED
    BY <1>9, <1>15, <1>23, <2>1
<1>31. n = q.root => r.root = s
  BY <1>15, <1>23
<1>32. n # q.root => r.root = q.root
  BY <1>15, <1>23
<1>33. InPlace(q, r, n, s)
  BY <1>10, <1>23, <1>25, <1>26, <1>27, <1>28, <1>29, <1>30, <1>31, <1>32 DEF InPlace
<1> QED
  BY <1>22, <1>33

\* q is t, but for what is stored at s and for the parent of c, which has moved.
Near(t, q, s, c, n) ==
    /\ q \in Trees /\ q.root = t.root
    /\ \A x \in Sides, d \in Cells : d # s => q.kid[x][d] = t.kid[x][d]
    /\ \A d \in Cells : d # s /\ d # c => q.parent[d] = t.parent[d]
    /\ q.parent[c] = Moved(n, s, t.parent[c])
    /\ \A d \in Cells : d # s => q.red[d] = t.red[d]

\* The next node may take the place.
LEMMA NearCanPlace ==
    ASSUME NEW t, NEW sub, NEW L, NEW pos, NEW key, Kept(t, sub, L, pos, key),
           NEW n \in L, NEW s \in Nodes, s \notin L, NEW c \in L \cup {Sentinel}, c # n,
           NEW q, Near(t, q, s, c, n)
    PROVE  /\ CanPlace(q, n, s) /\ q.parent[n] = t.parent[n]
           /\ n # t.root => t.parent[n] \in L /\ t.parent[n] # n /\ SideOf(q, n) = SideOf(t, n)
                            /\ SideOf(t, n) \in Sides /\ t.kid[SideOf(t, n)][t.parent[n]] = n
<1>1. /\ t \in Trees /\ n \in Nodes /\ n \in Cells /\ L \subseteq Nodes /\ n # s /\ t.root \in L
      /\ "left" \in Sides /\ Sentinel # s /\ c # s
  BY KeptNode, CellsAre DEF Sides
<1>2. \A x \in Sides : /\ q.kid[x][n] = t.kid[x][n] /\ t.kid[x][n] \in L \cup {Sentinel}
                       /\ t.kid[x][n] \in Cells /\ t.kid[x][n] # n
  BY <1>1, KeptNode DEF Near
<1>3. q.parent[n] = t.parent[n] /\ t.parent[n] \in Ptrs
  BY <1>1, TreeFields DEF Near
<1>4. ASSUME n # t.root
      PROVE  /\ t.parent[n] \in L /\ t.parent[n] # n /\ t.parent[n] # s /\ t.parent[n] \in Cells
             /\ SideOf(t, n) \in Sides /\ t.kid[SideOf(t, n)][t.parent[n]] = n
             /\ SideOf(q, n) = SideOf(t, n)
  <2>1. t.parent[n] \in L /\ t.parent[n] # n /\ SideOf(t, n) \in Sides /\ t.kid[SideOf(t, n)][t.parent[n]] = n
    BY <1>4, KeptNode
  <2>2. t.parent[n] # s /\ t.parent[n] \in Cells
    BY <1>1, <2>1, CellsAre
  <2>3. q.kid["left"][t.parent[n]] = t.kid["left"][t.parent[n]]
    BY <1>1, <2>2 DEF Near
  <2> QED
    BY <1>3, <2>1, <2>2, <2>3 DEF SideOf
<1>5. \A x \in Sides : q.kid[x][n] \in Cells /\ q.kid[x][n] # n /\ q.kid[x][n] # s
  BY <1>1, <1>2
<1>6. q \in Trees /\ q.root = t.root
  BY DEF Near
<1> QED
  BY <1>1, <1>3, <1>4, <1>5, <1>6 DEF CanPlace

\* Transplant renames.
LEMMA PlaceRenamed ==
    ASSUME NEW t, NEW sub, NEW L, NEW pos, NEW key, Kept(t, sub, L, pos, key),
           NEW n \in L, NEW s \in Nodes, s \notin L, NEW c \in L \cup {Sentinel}, c # n,
           NEW q, Near(t, q, s, c, n), NEW r, InPlace(q, r, n, s)
    PROVE  /\ Renamed(t, r, L, n, s)
           /\ c = t.root \/ r.parent[Moved(n, s, c)] = Moved(n, s, t.parent[c])
<1>1. /\ Shaped(t, sub) /\ L = sub[t.root] /\ L \subseteq Nodes /\ L \subseteq Cells /\ n # s /\ t.root \in L
      /\ n \in Cells /\ s \in Cells /\ Sentinel \in Cells /\ s # Sentinel /\ n # Sentinel /\ c # s /\ c \in Cells
      /\ Sentinel \notin L
  <2>1. Shaped(t, sub) /\ L = sub[t.root]
    BY DEF Kept
  <2>2. L \subseteq Nodes /\ t.root \in L
    BY KeptNode
  <2> QED
    BY <2>1, <2>2, CellsAre
<1>2. /\ q.parent[n] = t.parent[n]
      /\ n # t.root => t.parent[n] \in L /\ t.parent[n] # n /\ SideOf(q, n) = SideOf(t, n)
                       /\ SideOf(t, n) \in Sides /\ t.kid[SideOf(t, n)][t.parent[n]] = n
  BY NearCanPlace
<1>3. /\ q.root = t.root /\ \A x \in Sides, d \in Cells : d # s => q.kid[x][d] = t.kid[x][d]
      /\ \A d \in Cells : d # s /\ d # c => q.parent[d] = t.parent[d]
      /\ q.parent[c] = Moved(n, s, t.parent[c])
      /\ \A d \in Cells : d # s => q.red[d] = t.red[d]
  BY DEF Near
<1>4. /\ \A x \in Sides : r.kid[x][s] = t.kid[x][n] /\ r.kid[x][n] = Null
      /\ \A x \in Sides, d \in Cells :
           d # s /\ d # n /\ (n = t.root \/ x # SideOf(t, n) \/ d # t.parent[n]) => r.kid[x][d] = t.kid[x][d]
      /\ n # t.root => r.kid[SideOf(t, n)][t.parent[n]] = s
  <2>1. \A x \in Sides : r.kid[x][s] = q.kid[x][n] /\ r.kid[x][n] = Null
    BY DEF InPlace
  <2>2. \A x \in Sides, d \in Cells :
          d # s /\ d # n /\ (n = q.root \/ x # SideOf(q, n) \/ d # q.parent[n]) => r.kid[x][d] = q.kid[x][d]
    BY DEF InPlace
  <2>3. n # q.root => r.kid[SideOf(q, n)][q.parent[n]] = s
    BY DEF InPlace
  <2> QED
    BY <1>1, <1>2, <1>3, <2>1, <2>2, <2>3
<1>5. ASSUME NEW x \in Sides, NEW a \in L PROVE r.kid[x][Moved(n, s, a)] = Moved(n, s, t.kid[x][a])
  <2>1. t.kid[x][a] = n => n # t.root /\ a = t.parent[n] /\ x = SideOf(t, n)
    BY <1>1, PlaceIs
  <2>2. CASE a = n
    <3>1. t.kid[x][n] # n
      BY KeptNode
    <3> QED
      BY <1>4, <2>2, <3>1 DEF Moved
  <2>3. CASE a # n /\ t.kid[x][a] = n
    BY <1>4, <2>1, <2>3 DEF Moved
  <2>4. CASE a # n /\ t.kid[x][a] # n
    <3>1. n = t.root \/ x # SideOf(t, n) \/ a # t.parent[n]
      BY <1>2, <2>4
    <3>2. a # s /\ a \in Cells
      BY <1>1
    <3> QED
      BY <1>4, <2>4, <3>1, <3>2 DEF Moved
  <2> QED
    BY <2>2, <2>3, <2>4
<1>6. ASSUME NEW x \in Sides, NEW d \in Nodes, d \notin Ren(L, n, s) PROVE r.kid[x][d] = Null
  <2>1. CASE d = n
    BY <1>4, <2>1
  <2>2. CASE d # n
    <3>1. d \notin L /\ d # s
      BY <1>6, <2>2 DEF Ren
    <3>2. t.kid[x][d] = Null
      BY <1>1, <3>1 DEF Shaped, Leaved
    <3>3. n = t.root \/ d # t.parent[n]
      BY <1>2, <3>1
    <3> QED
      BY <1>4, <2>2, <3>1, <3>2, <3>3, CellsAre
  <2> QED
    BY <2>1, <2>2
<1>7. ASSUME NEW x \in Sides PROVE r.kid[x][Sentinel] = Sentinel
  <2>1. t.kid[x][Sentinel] = Sentinel
    BY <1>1 DEF Shaped, Leaved
  <2>2. n = t.root \/ Sentinel # t.parent[n]
    BY <1>1, <1>2
  <2> QED
    BY <1>1, <1>4, <2>1, <2>2
<1>8. /\ r.parent[s] = t.parent[n]
      /\ \A x \in Sides : t.kid[x][n] # Sentinel => r.parent[t.kid[x][n]] = s
      /\ \A d \in Cells : d # s /\ d # n /\ (d = Sentinel \/ \A x \in Sides : d # t.kid[x][n]) =>
                             r.parent[d] = q.parent[d]
  <2>1. r.parent[s] = q.parent[n]
    BY DEF InPlace
  <2>2. \A x \in Sides : q.kid[x][n] = t.kid[x][n]
    BY <1>1, <1>3
  <2>3. \A x \in Sides : q.kid[x][n] # Sentinel => r.parent[q.kid[x][n]] = s
    BY DEF InPlace
  <2>4. \A d \in Cells : d # s /\ d # n /\ (d = Sentinel \/ \A x \in Sides : d # q.kid[x][n]) =>
                            r.parent[d] = q.parent[d]
    BY DEF InPlace
  <2> QED
    BY <1>2, <2>1, <2>2, <2>3, <2>4
<1>9. \A d \in Cells : d # s => q.parent[d] = t.parent[d] \/ q.parent[d] = Moved(n, s, t.parent[d])
  BY <1>3
<1>10. ASSUME NEW a \in L, a # t.root PROVE r.parent[Moved(n, s, a)] = Moved(n, s, t.parent[a])
  <2>1. CASE a = n
    BY <1>2, <1>8, <1>10, <2>1 DEF Moved
  <2>2. CASE a # n /\ t.parent[a] = n
    <3>1. t.kid[SideOf(t, a)][n] = a /\ SideOf(t, a) \in Sides /\ a # Sentinel
      BY <1>1, <1>10, <2>2, KeptNode
    <3>2. r.parent[a] = s
      BY <1>8, <3>1
    <3> QED
      BY <2>2, <3>2 DEF Moved
  <2>3. CASE a # n /\ t.parent[a] # n
    <3>1. \A x \in Sides : a # t.kid[x][n]
      BY <2>3, KeptNode
    <3>2. a \in Cells /\ a # s
      BY <1>1
    <3>3. r.parent[a] = q.parent[a]
      BY <1>8, <2>3, <3>1, <3>2
    <3> QED
      BY <1>9, <2>3, <3>2, <3>3 DEF Moved
  <2> QED
    BY <2>1, <2>2, <2>3
<1>11. ASSUME NEW a \in L \cup {Sentinel} PROVE r.red[Moved(n, s, a)] = t.red[a]
  <2>1. a \in Cells /\ a # s
    BY <1>1
  <2>2. r.red[s] = q.red[n] /\ \A d \in Cells : d # s => r.red[d] = q.red[d]
    BY DEF InPlace
  <2>3. q.red[n] = t.red[n] /\ q.red[a] = t.red[a]
    BY <1>1, <1>3, <2>1
  <2>4. CASE a = n
    BY <2>2, <2>3, <2>4 DEF Moved
  <2>5. CASE a # n
    <3>1. Moved(n, s, a) = a
      BY <2>5 DEF Moved
    <3>2. r.red[a] = q.red[a]
      BY <2>1, <2>2
    <3> QED
      BY <2>3, <3>1, <3>2
  <2> QED
    BY <2>4, <2>5
<1>12. r \in Trees /\ r.root = Moved(n, s, t.root)
  <2>1. r \in Trees /\ (n = q.root => r.root = s) /\ (n # q.root => r.root = q.root)
    BY DEF InPlace
  <2> QED
    BY <1>3, <2>1 DEF Moved
<1>13. Renamed(t, r, L, n, s)
  BY <1>5, <1>6, <1>7, <1>10, <1>11, <1>12 DEF Renamed
<1>14. c = t.root \/ r.parent[Moved(n, s, c)] = Moved(n, s, t.parent[c])
  <2>1. CASE c = Sentinel
    <3>1. Moved(n, s, c) = c
      BY <1>1, <2>1 DEF Moved
    <3>2. r.parent[c] = q.parent[c]
      BY <1>1, <1>8, <2>1
    <3> QED
      BY <1>3, <3>1, <3>2
  <2>2. CASE c # Sentinel
    BY <1>10, <2>2
  <2> QED
    BY <2>1, <2>2
<1> QED
  BY <1>13, <1>14

\* Before the transplant the tree is near to the one that s has been cut out of.
LEMMA NearIs ==
    ASSUME NEW t \in Trees, NEW s \in Cells, s # t.root, NEW c \in Cells, c # s,
           NEW n, NEW p \in Cells,
           NEW t1, Replaced(t, t1, s, c), NEW t2, ParentStored(t1, t2, c, p), NEW r, Cleared(t2, r, s),
           NEW q, ParentStored(t1, q, c, Moved(n, s, p))
    PROVE  Near(r, q, s, c, n)
<1>1. q \in Trees /\ q.root = r.root
  BY DEF ParentStored, Cleared
<1>2. \A x \in Sides, d \in Cells : d # s => q.kid[x][d] = r.kid[x][d]
  BY DEF ParentStored, Cleared
<1>3. \A d \in Cells : d # s /\ d # c => q.parent[d] = r.parent[d]
  BY DEF ParentStored, Cleared
<1>4. q.parent[c] = Moved(n, s, p) /\ r.parent[c] = p
  BY DEF ParentStored, Cleared
<1>5. \A d \in Cells : d # s => q.red[d] = r.red[d]
  BY DEF ParentStored, Cleared
<1> QED
  BY <1>1, <1>2, <1>3, <1>4, <1>5 DEF Near

\* A node with a free side is deleted so.
DeletesOne(t, n, e, c, t1, t3) ==
    /\ t.kid[e][n] = Sentinel /\ c = t.kid[Other(e)][n] /\ t1 = Replace(t, n, c)
    /\ t3 = Clear(SetParent(t1, c, t.parent[n]), n)
    /\ n = t.root => Delete(t, n) = Clear(Paint(t1, c, FALSE), n)
    /\ n # t.root /\ t.red[n] => Delete(t, n) = t3
    /\ n # t.root /\ ~t.red[n] => Delete(t, n) = DeleteFixup(t3, c)

\* Delete, case by case: one child at most.
LEMMA DeleteOne ==
    ASSUME NEW t, NEW n, NEW x \in Sides, t.kid[x][n] = Sentinel
    PROVE  \E e \in Sides : \E c, t1, t3 : DeletesOne(t, n, e, c, t1, t3)
<1> DEFINE two == \A s \in Sides : t.kid[s][n] # Sentinel
           s == IF two THEN Least(t, t.kid["right"][n]) ELSE n
           c == IF t.kid["left"][s] = Sentinel THEN t.kid["right"][s] ELSE t.kid["left"][s]
           t1 == Replace(t, s, c)
           p == IF two /\ t.parent[s] = n THEN s ELSE t.parent[s]
           t2 == SetParent(t1, c, p)
           t3 == Clear(IF two THEN Transplant(t2, n, s) ELSE t2, n)
<1>1. Delete(t, n) = IF s = t.root THEN Clear(Paint(t1, c, FALSE), n)
                     ELSE IF t.red[s] THEN t3 ELSE DeleteFixup(t3, c)
  BY Zenon DEF Delete
<1>2. ~two
  OBVIOUS
<1>3. s = n
  <2> HIDE DEF two
  <2> QED
    BY <1>2
<1>4. t3 = Clear(t2, n)
  <2> HIDE DEF two, t2
  <2> QED
    BY <1>2
<1>5. p = t.parent[n]
  <2>1. p = t.parent[s]
    <3> HIDE DEF two, s
    <3> QED
      BY <1>2
  <2> QED
    BY <1>3, <2>1
<1> HIDE DEF two, s
<1>6. PICK e \in Sides : t.kid[e][n] = Sentinel /\ c = t.kid[Other(e)][n]
  <2>1. "left" \in Sides /\ Other("left") = "right" /\ "right" \in Sides /\ Other("right") = "left"
        /\ (x = "left" \/ x = "right")
    BY DEF Sides, Other
  <2>2. CASE t.kid["left"][n] = Sentinel
    BY <1>3, <2>1, <2>2
  <2>3. CASE t.kid["left"][n] # Sentinel
    BY <1>3, <2>1, <2>3
  <2> QED
    BY <2>2, <2>3
<1> HIDE DEF c
<1>7. t1 = Replace(t, n, c)
  BY <1>3
<1> HIDE DEF t1, p
<1>8. t3 = Clear(SetParent(t1, c, t.parent[n]), n)
  BY <1>4, <1>5
<1> HIDE DEF t2, t3
<1>9. n = t.root => Delete(t, n) = Clear(Paint(t1, c, FALSE), n)
  BY <1>1, <1>3
<1>10. n # t.root /\ t.red[n] => Delete(t, n) = t3
  BY <1>1, <1>3
<1>11. n # t.root /\ ~t.red[n] => Delete(t, n) = DeleteFixup(t3, c)
  BY <1>1, <1>3
<1>12. DeletesOne(t, n, e, c, t1, t3)
  BY <1>6, <1>7, <1>8, <1>9, <1>10, <1>11 DEF DeletesOne
<1> QED
  BY <1>12

\* A node with two children is deleted so.
DeletesTwo(t, n, s, c, t1, q, t3) ==
    /\ t1 = Replace(t, s, c) /\ q = SetParent(t1, c, Moved(n, s, t.parent[s]))
    /\ t3 = Clear(Transplant(q, n, s), n)
    /\ t.red[s] => Delete(t, n) = t3
    /\ ~t.red[s] => Delete(t, n) = DeleteFixup(t3, c)

\* Delete, case by case: two children.
LEMMA DeleteTwo ==
    ASSUME NEW t, NEW n, \A x \in Sides : t.kid[x][n] # Sentinel,
           NEW s, s = Least(t, t.kid["right"][n]), t.kid["left"][s] = Sentinel, s # t.root,
           NEW c, c = t.kid["right"][s]
    PROVE  \E t1, q, t3 : DeletesTwo(t, n, s, c, t1, q, t3)
<1> DEFINE two == \A y \in Sides : t.kid[y][n] # Sentinel
           z == IF two THEN Least(t, t.kid["right"][n]) ELSE n
           b == IF t.kid["left"][z] = Sentinel THEN t.kid["right"][z] ELSE t.kid["left"][z]
           t1 == Replace(t, z, b)
           p == IF two /\ t.parent[z] = n THEN z ELSE t.parent[z]
           t2 == SetParent(t1, b, p)
           t3 == Clear(IF two THEN Transplant(t2, n, z) ELSE t2, n)
<1>1. Delete(t, n) = IF z = t.root THEN Clear(Paint(t1, b, FALSE), n)
                     ELSE IF t.red[z] THEN t3 ELSE DeleteFixup(t3, b)
  BY Zenon DEF Delete
<1>2. two
  OBVIOUS
<1>3. z = s
  <2> HIDE DEF two
  <2> QED
    BY <1>2
<1>4. t3 = Clear(Transplant(t2, n, z), n)
  <2> HIDE DEF two, t2, z
  <2> QED
    BY <1>2
<1>5. p = Moved(n, s, t.parent[s])
  <2>1. p = IF t.parent[z] = n THEN z ELSE t.parent[z]
    <3> HIDE DEF two, z
    <3> QED
      BY <1>2
  <2> QED
    BY <1>3, <2>1 DEF Moved
<1> HIDE DEF two, z
<1>6. b = c
  BY <1>3
<1> HIDE DEF b
<1>7. t1 = Replace(t, s, c)
  BY <1>3, <1>6
<1> HIDE DEF t1, p
<1>8. t2 = SetParent(t1, c, Moved(n, s, t.parent[s]))
  BY <1>5, <1>6
<1> HIDE DEF t2
<1>9. t3 = Clear(Transplant(t2, n, s), n)
  BY <1>3, <1>4
<1> HIDE DEF t3
<1>10. t.red[s] => Delete(t, n) = t3
  BY <1>1, <1>3
<1>11. ~t.red[s] => Delete(t, n) = DeleteFixup(t3, c)
  BY <1>1, <1>3, <1>6
<1>12. DeletesTwo(t, n, s, c, t1, t2, t3)
  BY <1>7, <1>8, <1>9, <1>10, <1>11 DEF DeletesTwo
<1> QED
  BY <1>12

----------------------------------------------------------------------------
(* Deletion: the whole of it. *)

\* The least node on the right of n comes next after n.
LEMMA NextOnRight ==
    ASSUME NEW t, NEW sub, NEW L, NEW pos, NEW key, Kept(t, sub, L, pos, key),
           NEW n \in L, t.kid["right"][n] # Sentinel, NEW s, s = Least(t, t.kid["right"][n])
    PROVE  /\ s \in L /\ s \in sub[t.kid["right"][n]] /\ t.kid["left"][s] = Sentinel
           /\ pos[n] < pos[s]
           /\ \A b \in L : pos[n] < pos[b] => b = s \/ pos[s] < pos[b]
<1>1. /\ Shaped(t, sub) /\ L = sub[t.root] /\ pos \in [Nodes -> Int] /\ L \subseteq Nodes
      /\ "left" \in Sides /\ "right" \in Sides /\ Other("left") = "right" /\ Other("right") = "left"
      /\ \A x \in Sides : x = "left" \/ x = "right"
  <2>1. Shaped(t, sub) /\ L = sub[t.root] /\ pos \in [Nodes -> Int]
    BY DEF Kept, Sorted
  <2>2. L \subseteq Nodes
    BY KeptNode
  <2> QED
    BY <2>1, <2>2 DEF Sides, Other
<1>2. t.kid["right"][n] \in L
  BY <1>1, KeptNode
<1>3. Leftmost(t, sub, pos, t.kid["right"][n], s)
  BY <1>2, LeastIs
<1>4. /\ s \in sub[t.kid["right"][n]] /\ t.kid["left"][s] = Sentinel
      /\ \A b \in sub[t.kid["right"][n]] : b = s \/ pos[s] < pos[b]
  BY <1>3 DEF Leftmost
<1>5. \A a \in L, x \in Sides : \A m \in sub[t.kid[x][a]] : Toward(x, pos[m], pos[a])
  BY <1>1 DEF Kept, Sorted, SortedAt
<1>6. \A a \in L, x \in Sides : sub[t.kid[x][a]] \subseteq L
  BY <1>1, LinkedIs
<1>7. s \in L /\ pos[n] < pos[s]
  <2>1. s \in L
    BY <1>1, <1>4, <1>6
  <2>2. Toward("right", pos[s], pos[n])
    BY <1>1, <1>4, <1>5
  <2> QED
    BY <2>1, <2>2 DEF Toward
<1>8. ASSUME NEW b \in L, pos[n] < pos[b] PROVE b = s \/ pos[s] < pos[b]
  <2>1. n # b /\ pos[n] \in Int /\ pos[b] \in Int /\ pos[s] \in Int
    BY <1>1, <1>7, <1>8
  <2>2. PICK c \in L, x \in Sides : /\ n = c \/ n \in sub[t.kid[x][c]]
                                    /\ b = c \/ b \in sub[t.kid[Other(x)][c]]
    BY <1>1, <2>1, Fork
  <2>3. Other(x) \in Sides /\ pos[c] \in Int
    BY <1>1
  <2>4. CASE n = c
    <3>1. b \in sub[t.kid[Other(x)][n]]
      BY <2>1, <2>2, <2>4
    <3>2. CASE Other(x) = "right"
      BY <1>4, <3>1, <3>2
    <3>3. CASE Other(x) = "left"
      <4>1. Toward("left", pos[b], pos[n])
        BY <1>1, <1>5, <3>1, <3>3
      <4> QED
        BY <1>8, <2>1, <4>1 DEF Toward
    <3> QED
      BY <1>1, <2>3, <3>2, <3>3
  <2>5. CASE n # c
    <3>1. n \in sub[t.kid[x][c]] /\ Toward(x, pos[n], pos[c])
      BY <1>5, <2>2, <2>5
    <3>2. b = c \/ Toward(Other(x), pos[b], pos[c])
      BY <1>5, <2>2, <2>3
    <3>3. s \in sub[t.kid[x][c]]
      <4>1. sub[t.kid["right"][n]] \subseteq sub[n]
        BY <1>1, NodeIs
      <4>2. t.kid[x][c] \in Ptrs /\ n \in Nodes
        BY <1>1, NodeIs
      <4>3. sub[n] \subseteq sub[t.kid[x][c]]
        BY <1>1, <3>1, <4>2, Laminar
      <4> QED
        BY <1>4, <4>1, <4>3
    <3>4. Toward(x, pos[s], pos[c])
      BY <1>5, <3>3
    <3>5. CASE x = "left"
      <4>1. pos[s] < pos[c] /\ (b = c \/ pos[c] < pos[b])
        BY <1>1, <3>2, <3>4, <3>5 DEF Toward
      <4> QED
        BY <2>1, <2>3, <4>1
    <3>6. CASE x = "right"
      <4>1. pos[c] < pos[n] /\ (b = c \/ pos[b] < pos[c])
        BY <1>1, <3>1, <3>2, <3>6 DEF Toward
      <4> QED
        BY <1>8, <2>1, <2>3, <4>1
    <3> QED
      BY <1>1, <3>5, <3>6
  <2> QED
    BY <2>4, <2>5
<1> QED
  BY <1>4, <1>7, <1>8

\* The first of these leaves a balanced tree without n.
LEMMA DeleteOneIs ==
    ASSUME NEW t, NEW sub, NEW L, NEW pos, NEW key, Balanced(t, sub, L, pos, key),
           NEW n \in L, NEW x \in Sides, t.kid[x][n] = Sentinel,
           NEW key2, key2 = [key EXCEPT ![n] = 0]
    PROVE  \E sub2 : Balanced(Delete(t, n), sub2, L \ {n}, pos, key2)
<1>1. Kept(t, sub, L, pos, key)
  BY DEF Balanced
<1>2. PICK e \in Sides : \E c, t1, t3 : DeletesOne(t, n, e, c, t1, t3)
  BY DeleteOne
<1>3. PICK c, t1, t3 :
              /\ t.kid[e][n] = Sentinel /\ c = t.kid[Other(e)][n] /\ t1 = Replace(t, n, c)
              /\ t3 = Clear(SetParent(t1, c, t.parent[n]), n)
              /\ n = t.root => Delete(t, n) = Clear(Paint(t1, c, FALSE), n)
              /\ n # t.root /\ t.red[n] => Delete(t, n) = t3
              /\ n # t.root /\ ~t.red[n] => Delete(t, n) = DeleteFixup(t3, c)
  BY <1>2 DEF DeletesOne
<1>4. t \in Trees /\ t.key = key /\ c \in Cells /\ c # n /\ n \in Cells
      /\ (n # t.root => t.parent[n] \in Cells /\ t.parent[n] # n)
  <2>1. t \in Trees /\ t.key = key /\ n \in Cells /\ L \subseteq Nodes
    BY <1>1, KeptNode DEF Kept
  <2>2. c \in Cells /\ c # n
    BY <1>1, <1>3, CutNode
  <2>3. n # t.root => t.parent[n] \in L /\ t.parent[n] # n
    BY <1>1, KeptNode
  <2> QED
    BY <2>1, <2>2, <2>3, CellsAre
<1>5. Replaced(t, t1, n, c) /\ t1 \in Trees
  <2>1. t.parent[n] \in Cells \/ n = t.root
    BY <1>4
  <2>2. Replaced(t, t1, n, c)
    BY <1>3, <1>4, <2>1, ReplaceIs
  <2> QED
    BY <2>2 DEF Replaced
<1>6. CASE n = t.root
  <2>1. PICK t2 : t2 = Paint(t1, c, FALSE)
    OBVIOUS
  <2>2. Painted(t1, t2, c, FALSE) /\ t2 \in Trees
    <3>1. Painted(t1, t2, c, FALSE)
      BY <1>4, <1>5, <2>1, PaintIs
    <3> QED
      BY <3>1 DEF Painted
  <2>3. PICK r : r = Clear(t2, n)
    OBVIOUS
  <2>4. Cleared(t2, r, n)
    BY <1>4, <2>2, <2>3, ClearIs
  <2>5. TopCut(t, r, n, c) /\ r.key = key2
    <3>1. TopCut(t, r, n, c) /\ KeyGone(t, r, n)
      BY <1>4, <1>5, <1>6, <2>2, <2>4, CutTopIs
    <3> QED
      BY <1>4, <3>1 DEF KeyGone
  <2>6. Balanced(r, CutSub(sub, n), L \ {n}, pos, r.key)
    BY <1>3, <1>6, <2>5, CutTop
  <2> QED
    BY <1>3, <1>6, <2>1, <2>3, <2>5, <2>6
<1>7. CASE n # t.root
  <2>1. PICK t2 : t2 = SetParent(t1, c, t.parent[n])
    OBVIOUS
  <2>2. ParentStored(t1, t2, c, t.parent[n]) /\ t2 \in Trees
    <3>1. ParentStored(t1, t2, c, t.parent[n])
      BY <1>4, <1>5, <1>7, <2>1, ParentSet, CellsAre
    <3> QED
      BY <3>1 DEF ParentStored
  <2>3. t3 = Clear(t2, n)
    BY <1>3, <2>1
  <2>4. Cleared(t2, t3, n)
    BY <1>4, <2>2, <2>3, ClearIs
  <2>5. Cut(t, t3, n, c) /\ t3.red = t.red /\ t3.key = key2
    <3>1. Cut(t, t3, n, c) /\ t3.red = t.red /\ KeyGone(t, t3, n)
      BY <1>4, <1>5, <1>7, <2>2, <2>4, CutIs
    <3> QED
      BY <1>4, <3>1 DEF KeyGone
  <2>6. CASE t.red[n]
    <3>1. Balanced(t3, CutSub(sub, n), L \ {n}, pos, t3.key)
      BY <1>3, <2>5, <2>6, CutRed
    <3> QED
      BY <1>3, <1>7, <2>5, <2>6, <3>1
  <2>7. CASE ~t.red[n]
    <3>1. LackAt(t3, c, CutSub(sub, n), L \ {n}, pos, t3.key)
      BY <1>3, <1>7, <2>5, <2>7, CutBlack
    <3>2. \E sub2 : Balanced(DeleteFixup(t3, c), sub2, L \ {n}, pos, t3.key)
      BY <3>1, DeleteFixupIs
    <3> QED
      BY <1>3, <1>7, <2>5, <2>7, <3>2
  <2> QED
    BY <2>6, <2>7
<1> QED
  BY <1>6, <1>7

\* And so does the second.
LEMMA DeleteTwoIs ==
    ASSUME NEW t, NEW sub, NEW L, NEW pos, NEW key, Balanced(t, sub, L, pos, key),
           NEW n \in L, \A x \in Sides : t.kid[x][n] # Sentinel,
           NEW s, s = Least(t, t.kid["right"][n]),
           NEW key2, key2 = [key EXCEPT ![n] = 0],
           NEW pos2, pos2 = [pos EXCEPT ![s] = pos[n]]
    PROVE  \E sub2 : Balanced(Delete(t, n), sub2, L \ {n}, pos2, key2)
<1>1. /\ Kept(t, sub, L, pos, key) /\ t \in Trees /\ t.key = key /\ Shaped(t, sub) /\ L = sub[t.root]
      /\ pos \in [Nodes -> Int] /\ L \subseteq Nodes /\ L \subseteq Cells
      /\ "left" \in Sides /\ "right" \in Sides /\ Other("left") = "right"
  <2>1. /\ Kept(t, sub, L, pos, key) /\ t \in Trees /\ t.key = key /\ Shaped(t, sub) /\ L = sub[t.root]
        /\ pos \in [Nodes -> Int]
    BY DEF Balanced, Kept, Shaped, Sorted
  <2>2. L \subseteq Nodes
    BY <2>1, KeptNode
  <2> QED
    BY <2>1, <2>2, CellsAre DEF Sides, Other
<1>2. /\ s \in L /\ s \in sub[t.kid["right"][n]] /\ t.kid["left"][s] = Sentinel /\ pos[n] < pos[s]
  <2>1. t.kid["right"][n] # Sentinel
    BY <1>1
  <2> QED
    BY <1>1, <2>1, NextOnRight
<1>3. s # n /\ s # t.root
  <2>1. pos[n] \in Int
    BY <1>1
  <2>2. t.root \notin sub[t.kid["right"][n]]
    BY <1>1, TopIs
  <2> QED
    BY <1>2, <2>1, <2>2
<1>4. PICK c : c = t.kid["right"][s]
  OBVIOUS
<1>5. /\ c = t.kid[Other("left")][s] /\ c \in Cells /\ c # s /\ c \in (L \ {s}) \cup {Sentinel}
      /\ t.parent[s] \in L /\ t.parent[s] # s /\ t.parent[s] \in Cells
  <2>1. c = t.kid[Other("left")][s]
    BY <1>1, <1>4
  <2>2. /\ c \in Cells /\ c # s /\ (c # Sentinel => c \in L)
        /\ t.parent[s] \in L /\ t.parent[s] # s
    BY <1>1, <1>2, <1>3, <2>1, CutNode
  <2> QED
    BY <1>1, <2>1, <2>2
<1>6. c # n
  <2> SUFFICES ASSUME c = n PROVE FALSE
    OBVIOUS
  <2>1. n \in sub[n]
    BY <1>1, NodeIs
  <2>2. Toward("right", pos[n], pos[s])
    BY <1>1, <1>2, <1>4, <2>1 DEF Kept, Sorted, SortedAt
  <2>3. pos[n] \in Int /\ pos[s] \in Int
    BY <1>1, <1>2
  <2> QED
    BY <1>2, <2>2, <2>3 DEF Toward
<1>7. PICK t1, q, t3 : DeletesTwo(t, n, s, c, t1, q, t3)
  BY <1>2, <1>3, <1>4, DeleteTwo
<1>8. /\ t1 = Replace(t, s, c) /\ q = SetParent(t1, c, Moved(n, s, t.parent[s]))
      /\ t3 = Clear(Transplant(q, n, s), n)
  BY <1>7 DEF DeletesTwo
<1>9. Replaced(t, t1, s, c) /\ t1 \in Trees
  <2>1. Replaced(t, t1, s, c)
    BY <1>1, <1>5, <1>8, ReplaceIs
  <2> QED
    BY <2>1 DEF Replaced
<1>10. PICK t2 : t2 = SetParent(t1, c, t.parent[s])
  OBVIOUS
<1>11. ParentStored(t1, t2, c, t.parent[s]) /\ t2 \in Trees
  <2>1. ParentStored(t1, t2, c, t.parent[s])
    BY <1>5, <1>9, <1>10, ParentSet, CellsAre
  <2> QED
    BY <2>1 DEF ParentStored
<1>12. PICK r : r = Clear(t2, s)
  OBVIOUS
<1>13. Cleared(t2, r, s) /\ s \in Cells
  BY <1>1, <1>2, <1>11, <1>12, ClearIs
<1>14. Cut(t, r, s, c) /\ r.red = t.red
  <2>1. t \in Trees /\ s # t.root /\ c \in Cells /\ c # s /\ t.parent[s] \in Cells /\ t.parent[s] # s
    BY <1>1, <1>3, <1>5
  <2>2. Replaced(t, t1, s, c) /\ ParentStored(t1, t2, c, t.parent[s])
    BY <1>9, <1>11
  <2> QED
    BY <1>13, <2>1, <2>2, CutIs
<1>15. ParentStored(t1, q, c, Moved(n, s, t.parent[s])) /\ q \in Trees
  <2>1. Moved(n, s, t.parent[s]) \in Ptrs
    BY <1>5, <1>13, CellsAre DEF Moved
  <2>2. ParentStored(t1, q, c, Moved(n, s, t.parent[s]))
    BY <1>5, <1>8, <1>9, <2>1, ParentSet
  <2> QED
    BY <2>2 DEF ParentStored
<1>16. Near(r, q, s, c, n)
  BY <1>1, <1>3, <1>5, <1>9, <1>11, <1>13, <1>15, NearIs
<1>17. PICK M : M = L \ {s}
  OBVIOUS
<1>18. n \in M /\ s \in Nodes /\ s \notin M /\ c \in M \cup {Sentinel} /\ Ren(M, n, s) = L \ {n}
  BY <1>1, <1>2, <1>3, <1>5, <1>17 DEF Ren
<1>19. Kept(r, CutSub(sub, s), M, pos, r.key)
  BY <1>1, <1>2, <1>5, <1>14, <1>17, CutKept
<1>20. CanPlace(q, n, s)
  BY <1>6, <1>16, <1>18, <1>19, NearCanPlace
<1>21. InPlace(q, t3, n, s)
  BY <1>8, <1>20, InPlaceIs
<1>22. Renamed(r, t3, M, n, s) /\ (c = r.root \/ t3.parent[Moved(n, s, c)] = Moved(n, s, r.parent[c]))
  BY <1>6, <1>16, <1>18, <1>19, <1>21, PlaceRenamed
<1>23. t3.key = key2
  <2>1. q.key = t.key
    BY <1>9, <1>15 DEF Replaced, ParentStored
  <2> QED
    BY <1>1, <1>21, <2>1 DEF InPlace
<1>24. CASE t.red[s]
  <2>1. Balanced(r, CutSub(sub, s), M, pos, r.key)
    BY <1>1, <1>2, <1>5, <1>14, <1>17, <1>24, CutRed
  <2>2. Balanced(t3, RenSub(CutSub(sub, s), n, s), Ren(M, n, s), [pos EXCEPT ![s] = pos[n]], t3.key)
    BY <1>18, <1>22, <2>1, RenamedBalanced
  <2>3. Delete(t, n) = t3
    BY <1>7, <1>24 DEF DeletesTwo
  <2> QED
    BY <1>18, <1>23, <2>2, <2>3
<1>25. CASE ~t.red[s]
  <2>1. LackAt(r, c, CutSub(sub, s), M, pos, r.key)
    BY <1>1, <1>2, <1>3, <1>5, <1>14, <1>17, <1>25, CutBlack
  <2>2. LackAt(t3, Moved(n, s, c), RenSub(CutSub(sub, s), n, s), Ren(M, n, s), [pos EXCEPT ![s] = pos[n]], t3.key)
    BY <1>18, <1>22, <2>1, RenamedLack
  <2>3. Moved(n, s, c) = c
    BY <1>6 DEF Moved
  <2>4. LackAt(t3, c, RenSub(CutSub(sub, s), n, s), L \ {n}, pos2, key2)
    BY <1>18, <1>23, <2>2, <2>3
  <2>5. Delete(t, n) = DeleteFixup(t3, c)
    BY <1>7, <1>25 DEF DeletesTwo
  <2> QED
    BY <2>4, <2>5, DeleteFixupIs
<1> QED
  BY <1>24, <1>25

\* The nodes but n keep their order by key.
LEMMA KeysOneLess ==
    ASSUME NEW L, NEW pos, NEW key, NEW n \in L, NEW key2, key2 = [key EXCEPT ![n] = 0],
           KeysSorted(L, pos, key)
    PROVE  KeysSorted(L \ {n}, pos, key2)
  BY DEF KeysSorted

\* Keys stay in order when a node takes another's position.
LEMMA KeysTaken ==
    ASSUME NEW t, NEW sub, NEW L, NEW pos, NEW key, Kept(t, sub, L, pos, key),
           NEW n \in L, t.kid["right"][n] # Sentinel, NEW s, s = Least(t, t.kid["right"][n]),
           NEW key2, key2 = [key EXCEPT ![n] = 0], NEW pos2, pos2 = [pos EXCEPT ![s] = pos[n]],
           KeysSorted(L, pos, key)
    PROVE  KeysSorted(L \ {n}, pos2, key2)
<1>1. /\ pos \in [Nodes -> Int] /\ L \subseteq Nodes /\ L \subseteq Cells /\ key \in [Cells -> Int]
      /\ \A a \in L : pos[a] \in Int /\ key[a] \in Int
  <2>1. t \in Trees /\ t.key = key /\ pos \in [Nodes -> Int]
    BY DEF Kept, Shaped, Sorted
  <2>2. L \subseteq Nodes
    BY KeptNode
  <2> QED
    BY <2>1, <2>2, CellsAre, TreeFields
<1>2. /\ s \in L /\ pos[n] < pos[s]
      /\ \A b \in L : pos[n] < pos[b] => b = s \/ pos[s] < pos[b]
  BY NextOnRight
<1>3. s # n
  BY <1>1, <1>2
<1>4. pos2[s] = pos[n] /\ \A a \in L : a # s => pos2[a] = pos[a]
  BY <1>1, <1>2
<1>5. \A a \in L : a # n => key2[a] = key[a]
  BY <1>1
<1>6. \A a \in L, b \in L : pos[a] < pos[b] => key[a] <= key[b]
  BY DEF KeysSorted
<1>7. ASSUME NEW a \in L \ {n}, NEW b \in L \ {n}, pos2[a] < pos2[b] PROVE key2[a] <= key2[b]
  <2>1. pos[a] \in Int /\ pos[b] \in Int /\ pos[n] \in Int /\ pos[s] \in Int /\ key[a] \in Int /\ key[b] \in Int
    BY <1>1, <1>2
  <2>2. key2[a] = key[a] /\ key2[b] = key[b]
    BY <1>5
  <2>3. a = b \/ pos[a] < pos[b]
    <3>1. CASE a = s /\ b # s
      BY <1>2, <1>4, <1>7, <3>1
    <3>2. CASE b = s /\ a # s
      <4>1. pos[a] < pos[n]
        BY <1>4, <1>7, <3>2
      <4> QED
        BY <1>2, <2>1, <3>2, <4>1
    <3>3. CASE a # s /\ b # s
      BY <1>4, <1>7, <3>3
    <3> QED
      BY <3>1, <3>2, <3>3
  <2> QED
    BY <1>6, <2>1, <2>2, <2>3
<1> QED
  BY <1>7 DEF KeysSorted

\* What Delete does to a balanced tree.
LEMMA DeleteIs ==
    ASSUME NEW t, NEW sub, NEW L, NEW pos, NEW key, Balanced(t, sub, L, pos, key),
           NEW n \in L, NEW key2, key2 = [key EXCEPT ![n] = 0]
    PROVE  \E sub2, pos2 :
             /\ Balanced(Delete(t, n), sub2, L \ {n}, pos2, key2)
             /\ KeysSorted(L, pos, key) => KeysSorted(L \ {n}, pos2, key2)
<1>1. CASE \A x \in Sides : t.kid[x][n] # Sentinel
  <2>1. PICK s : s = Least(t, t.kid["right"][n])
    OBVIOUS
  <2>2. PICK pos2 : pos2 = [pos EXCEPT ![s] = pos[n]]
    OBVIOUS
  <2>3. \E sub2 : Balanced(Delete(t, n), sub2, L \ {n}, pos2, key2)
    BY <1>1, <2>1, <2>2, DeleteTwoIs
  <2>4. KeysSorted(L, pos, key) => KeysSorted(L \ {n}, pos2, key2)
    <3>1. Kept(t, sub, L, pos, key) /\ t.kid["right"][n] # Sentinel
      BY <1>1 DEF Balanced, Sides
    <3> QED
      BY <2>1, <2>2, <3>1, KeysTaken
  <2> QED
    BY <2>3, <2>4
<1>2. CASE ~(\A x \in Sides : t.kid[x][n] # Sentinel)
  <2>1. PICK x \in Sides : t.kid[x][n] = Sentinel
    BY <1>2
  <2>2. \E sub2 : Balanced(Delete(t, n), sub2, L \ {n}, pos, key2)
    BY <2>1, DeleteOneIs
  <2>3. KeysSorted(L, pos, key) => KeysSorted(L \ {n}, pos, key2)
    BY KeysOneLess
  <2> QED
    BY <2>2, <2>3
<1> QED
  BY <1>1, <1>2

\* The colour of a node that is not linked does not matter.
LEMMA PaintFree ==
    ASSUME NEW t, NEW sub, NEW L, NEW pos, NEW key, Balanced(t, sub, L, pos, key),
           NEW n \in Nodes, n \notin L, NEW v \in BOOLEAN
    PROVE  Balanced(Paint(t, n, v), sub, L, pos, key)
<1> DEFINE r == Paint(t, n, v)
<1>1. t \in Trees /\ n \in Cells /\ t.key = key /\ Shaped(t, sub) /\ L = sub[t.root] /\ L \subseteq Nodes
      /\ t.root \in Cells /\ n # Sentinel
  <2>1. t \in Trees /\ t.key = key /\ Shaped(t, sub) /\ L = sub[t.root]
    BY DEF Balanced, Kept, Shaped
  <2>2. SubOK(sub) /\ t.root \in Ptrs /\ t.root \in Cells
    BY <2>1, CellsAre, TreeFields DEF Shaped
  <2> QED
    BY <2>1, <2>2, CellsAre DEF SubOK
<1>2. Painted(t, r, n, v)
  BY <1>1, PaintIs
<1> HIDE DEF r
<1>3. /\ r \in Trees /\ r.root = t.root /\ r.kid = t.kid /\ r.parent = t.parent /\ r.key = t.key
      /\ \A d \in Cells : d # n => r.red[d] = t.red[d]
  BY <1>2 DEF Painted
<1>4. Kept(r, sub, L, pos, key)
  <2>1. Shaped(r, sub)
    BY <1>1, <1>3, SameShape
  <2>2. Sorted(r, sub, pos)
    BY <1>3 DEF Balanced, Kept, Sorted, SortedAt
  <2>3. ~r.red[Sentinel]
    BY <1>1, <1>3, CellsAre DEF Balanced, Kept
  <2> QED
    BY <1>1, <1>3, <2>1, <2>2, <2>3 DEF Kept, Balanced
<1>5. \A a \in L : r.red[a] = t.red[a]
  BY <1>1, <1>3, CellsAre
<1>6. \E h : Even(r, L, h)
  <2>1. PICK h : Even(t, L, h)
    BY DEF Balanced
  <2>2. h \in [Cells -> Nat] /\ h[Sentinel] = 0 /\ \A a \in L, s \in Sides : EvenAt(t, h, a, s)
    BY <1>1, <2>1, EvenIs
  <2>3. \A a \in L, s \in Sides : EvenAt(r, h, a, s)
    BY <1>3, <1>5, <2>2 DEF EvenAt, Black
  <2> QED
    BY <1>1, <2>2, <2>3, EvenIs
<1>7. ASSUME NEW a \in L, NEW s \in Sides PROVE ~(r.red[a] /\ r.red[r.kid[s][a]])
  <2>1. Kept(t, sub, L, pos, key) /\ ~(t.red[a] /\ t.red[t.kid[s][a]])
    BY DEF Balanced
  <2>2. t.kid[s][a] \in Cells /\ (t.kid[s][a] # Sentinel => t.kid[s][a] \in L)
    BY <2>1, KeptNode
  <2>3. t.kid[s][a] # n
    BY <1>1, <2>2
  <2> QED
    BY <1>3, <1>5, <2>1, <2>2, <2>3
<1>8. ~r.red[r.root]
  <2>1. t.root # n
    <3>1. CASE t.root = Sentinel
      BY <1>1, <3>1
    <3>2. CASE t.root # Sentinel
      <4>1. t.root \in sub[t.root]
        BY <1>1, <3>2, NodeIs, CellsAre, SidesAre
      <4> QED
        BY <1>1, <4>1
    <3> QED
      BY <3>1, <3>2
  <2> QED
    BY <1>1, <1>3, <2>1 DEF Balanced
<1> QED
  BY <1>4, <1>6, <1>7, <1>8 DEF Balanced, r

----------------------------------------------------------------------------
(* What the model reads off a tree: the linked nodes, the black heights. *)
LEMMA UnderIs ==
    ASSUME NEW t, NEW sub, Shaped(t, sub)
    PROVE  Under(t) = sub
<1> DEFINE below(f) == [n \in Cells \cup {Null} |->
                            IF n \notin Nodes THEN {}
                            ELSE {n} \cup f[t.kid["left"][n]] \cup f[t.kid["right"][n]]]
<1>1. SubOK(sub) /\ Nested(t, sub) /\ "left" \in Sides /\ "right" \in Sides
      /\ \A n \in Nodes, s \in Sides : t.kid[s][n] \in Ptrs
  <2>1. SubOK(sub) /\ Nested(t, sub) /\ "left" \in Sides /\ "right" \in Sides
    BY DEF Shaped, Sides
  <2> QED
    BY <2>1, NodeIs
<1>2. sub = below(sub)
  <2>1. ASSUME NEW n \in Ptrs
        PROVE  sub[n] = IF n \notin Nodes THEN {} ELSE {n} \cup sub[t.kid["left"][n]] \cup sub[t.kid["right"][n]]
    <3>1. CASE n \in Nodes
      BY <1>1, <3>1 DEF Nested
    <3>2. CASE n \notin Nodes
      BY <1>1, <3>2, CellsAre DEF SubOK
    <3> QED
      BY <3>1, <3>2
  <2> QED
    BY <1>1, <2>1 DEF SubOK, Ptrs
<1>3. ASSUME NEW f, f = below(f) PROVE f = sub
  <2>1. \A n \in Ptrs : f[n] = IF n \notin Nodes THEN {} ELSE {n} \cup f[t.kid["left"][n]] \cup f[t.kid["right"][n]]
    BY <1>3 DEF Ptrs
  <2>2. \A n \in Ptrs : n \notin Nodes => f[n] = sub[n]
    BY <1>2, <2>1, CellsAre DEF Ptrs
  <2> DEFINE S == {n \in Nodes : f[n] # sub[n]}
  <2>3. S = {}
    <3> SUFFICES ASSUME S # {} PROVE FALSE
      OBVIOUS
    <3>1. PICK n \in S : \A s \in Sides : t.kid[s][n] \notin S
      <4>1. S \subseteq Nodes
        OBVIOUS
      <4> HIDE DEF S
      <4> QED
        BY <4>1, Lowest
    <3>2. n \in Nodes /\ n \in Ptrs /\ f[n] # sub[n]
      BY CellsAre
    <3>3. \A s \in Sides : f[t.kid[s][n]] = sub[t.kid[s][n]]
      BY <1>1, <2>2, <3>1, <3>2
    <3>4. f[n] = {n} \cup f[t.kid["left"][n]] \cup f[t.kid["right"][n]]
      BY <2>1, <3>2
    <3>5. sub[n] = {n} \cup sub[t.kid["left"][n]] \cup sub[t.kid["right"][n]]
      BY <1>1, <3>2 DEF Nested
    <3> QED
      BY <1>1, <3>2, <3>3, <3>4, <3>5
  <2>4. \A n \in Ptrs : f[n] = sub[n]
    BY <2>2, <2>3
  <2>5. f = [n \in Ptrs |-> f[n]]
    BY <1>3 DEF Ptrs
  <2>6. sub = [n \in Ptrs |-> sub[n]]
    BY <1>1 DEF SubOK
  <2> QED
    BY <2>4, <2>5, <2>6
<1>4. Under(t) = CHOOSE f : f = below(f)
  BY Zenon DEF Under
<1> HIDE DEF below
<1>5. (CHOOSE f : f = below(f)) = below(CHOOSE f : f = below(f))
  BY <1>2
<1> QED
  BY <1>3, <1>4, <1>5

\* Linked gives the nodes of the tree.
LEMMA LinkedAre ==
    ASSUME NEW t, NEW sub, NEW L, NEW pos, NEW key, Kept(t, sub, L, pos, key)
    PROVE  Linked(t) = L
  BY UnderIs DEF Kept, Linked

\* All paths down from a linked node have as many black nodes.
LEMMA BlackHeightsAre ==
    ASSUME NEW t, NEW sub, NEW L, NEW pos, NEW key, Balanced(t, sub, L, pos, key)
    PROVE  Cardinality(BlackHeights(t)[t.root]) = 1
<1> DEFINE b(n) == IF t.red[n] THEN 0 ELSE 1
           up(f) == [n \in Cells \cup {Null} |->
                        IF n \notin Nodes THEN {0}
                        ELSE {h + b(n) : h \in f[t.kid["left"][n]] \cup f[t.kid["right"][n]]}]
<1>1. /\ Kept(t, sub, L, pos, key) /\ Shaped(t, sub) /\ L = sub[t.root] /\ L \subseteq Nodes
      /\ t.root \in Cells /\ "left" \in Sides /\ "right" \in Sides
      /\ \A n \in Nodes, s \in Sides : t.kid[s][n] \in Ptrs
      /\ \A n \in Nodes, s \in Sides : n \notin L => t.kid[s][n] = Null
  <2>1. /\ Kept(t, sub, L, pos, key) /\ Shaped(t, sub) /\ L = sub[t.root] /\ SubOK(sub) /\ t \in Trees
        /\ "left" \in Sides /\ "right" \in Sides
    BY DEF Balanced, Kept, Shaped, Sides
  <2>2. t.root \in Cells /\ L \subseteq Nodes
    BY <2>1, TreeFields, CellsAre DEF SubOK
  <2>3. \A n \in Nodes, s \in Sides : t.kid[s][n] \in Ptrs
    BY <2>1, NodeIs
  <2>4. \A n \in Nodes, s \in Sides : n \notin L => t.kid[s][n] = Null
    BY <2>1 DEF Shaped, Leaved
  <2> QED
    BY <2>1, <2>2, <2>3, <2>4
<1>2. PICK h : h \in [Cells -> Nat] /\ h[Sentinel] = 0 /\ \A n \in L, q \in Sides : EvenAt(t, h, n, q)
  BY <1>1, EvenIs DEF Balanced
<1> DEFINE g == [n \in Cells \cup {Null} |-> IF n \in L THEN {h[n]} ELSE IF n \in Nodes THEN {b(n)} ELSE {0}]
<1>3. ASSUME NEW n \in Nodes
      PROVE  g[n] = {k + b(n) : k \in g[t.kid["left"][n]] \cup g[t.kid["right"][n]]}
  <2>1. n \in Ptrs /\ b(n) \in {0, 1}
    BY CellsAre
  <2>2. CASE n \in L
    <3>1. ASSUME NEW s \in Sides PROVE h[n] = h[t.kid[s][n]] + b(n) /\ g[t.kid[s][n]] = {h[t.kid[s][n]]}
      <4>1. t.kid[s][n] \in Cells /\ (t.kid[s][n] # Sentinel => t.kid[s][n] \in L)
        BY <1>1, <2>2, KeptNode
      <4>2. h[n] = h[t.kid[s][n]] + b(n)
        BY <1>2, <2>2 DEF EvenAt, Black
      <4>3. g[t.kid[s][n]] = {h[t.kid[s][n]]}
        BY <1>1, <1>2, <4>1, CellsAre DEF Ptrs
      <4> QED
        BY <4>2, <4>3
    <3>2. PICK l : l = h[t.kid["left"][n]]
      OBVIOUS
    <3>3. PICK r : r = h[t.kid["right"][n]]
      OBVIOUS
    <3>4. /\ h[n] = l + b(n) /\ h[n] = r + b(n)
          /\ g[t.kid["left"][n]] = {l} /\ g[t.kid["right"][n]] = {r} /\ g[n] = {h[n]}
      BY <1>1, <2>1, <2>2, <3>1, <3>2, <3>3 DEF Ptrs
    <3> HIDE DEF g, b
    <3> QED
      BY <3>4
  <2>3. CASE n \notin L
    <3>1. t.kid["left"][n] = Null /\ t.kid["right"][n] = Null
      BY <1>1, <2>3
    <3>2. g[Null] = {0} /\ g[n] = {b(n)}
      BY <1>1, <2>1, <2>3, CellsAre DEF Ptrs
    <3> HIDE DEF g, b
    <3> QED
      BY <2>1, <3>1, <3>2
  <2> QED
    BY <2>2, <2>3
<1>4. g = up(g)
  <2>1. \A n \in Cells \cup {Null} : n \notin Nodes => g[n] = {0}
    BY <1>1
  <2> DEFINE G == g
  <2>2. G = [n \in Cells \cup {Null} |-> G[n]]
    OBVIOUS
  <2>3. \A n \in Nodes : G[n] = {k + b(n) : k \in G[t.kid["left"][n]] \cup G[t.kid["right"][n]]}
    BY <1>3
  <2>4. \A n \in Cells \cup {Null} : n \notin Nodes => G[n] = {0}
    BY <2>1
  <2> HIDE DEF G, b
  <2>5. G = up(G)
    BY <2>2, <2>3, <2>4
  <2> QED
    BY <2>5 DEF G
<1>5. ASSUME NEW f, f = up(f) PROVE f[t.root] = g[t.root]
  <2>1. /\ \A n \in Ptrs : n \notin Nodes => f[n] = {0}
        /\ \A n \in Nodes : f[n] = {k + b(n) : k \in f[t.kid["left"][n]] \cup f[t.kid["right"][n]]}
    <3> HIDE DEF b
    <3> QED
      BY <1>5, CellsAre DEF Ptrs
  <2>2. \A n \in Ptrs : n \notin Nodes => g[n] = {0}
    BY <1>1 DEF Ptrs
  <2> HIDE DEF g, b
  <2> DEFINE S == {n \in Nodes : f[n] # g[n]}
  <2>3. S = {}
    <3> SUFFICES ASSUME S # {} PROVE FALSE
      OBVIOUS
    <3>1. PICK n \in S : \A s \in Sides : t.kid[s][n] \notin S
      <4>1. S \subseteq Nodes
        OBVIOUS
      <4> HIDE DEF S
      <4> QED
        BY <1>1, <4>1, Lowest
    <3>2. n \in Nodes /\ f[n] # g[n]
      OBVIOUS
    <3>3. \A s \in Sides : f[t.kid[s][n]] = g[t.kid[s][n]]
      BY <1>1, <2>1, <2>2, <3>1, <3>2
    <3> QED
      BY <1>1, <1>3, <2>1, <3>2, <3>3
  <2>4. t.root \in Ptrs
    BY <1>1, CellsAre
  <2>5. t.root \in Nodes => f[t.root] = g[t.root]
    BY <2>3
  <2> HIDE DEF S
  <2> QED
    BY <2>1, <2>2, <2>4, <2>5
<1>6. BlackHeights(t) = CHOOSE f : f = up(f)
  BY Zenon DEF BlackHeights
<1>7. \E x : g[t.root] = {x}
  BY <1>1
<1> HIDE DEF up, g
<1>8. BlackHeights(t)[t.root] = g[t.root]
  <2>1. (CHOOSE f : f = up(f)) = up(CHOOSE f : f = up(f))
    BY <1>4
  <2> QED
    BY <1>5, <1>6, <2>1
<1> QED
  BY <1>7, <1>8, FS_Singleton

----------------------------------------------------------------------------
(* The specification. *)

\* The inductive invariant: the tree is balanced, and while all keys have been
\* close the order of the nodes in it is that of their keys.
TimersInv ==
    /\ clock \in Nat /\ inRange \in BOOLEAN
    /\ \E sub, L, pos :
         /\ Balanced(tree, sub, L, pos, tree.key)
         /\ inRange => KeysSorted(L, pos, tree.key)

LEMMA EmptyBalanced ==
    \E sub, pos : Balanced(EmptyTree, sub, {}, pos, EmptyTree.key) /\ KeysSorted({}, pos, EmptyTree.key)
<1> DEFINE t == EmptyTree
           sub == [m \in Ptrs |-> IF m \in Nodes THEN {m} ELSE {}]
           pos == [m \in Nodes |-> 0]
           h == [c \in Cells |-> 0]
<1>1. /\ t.root = Sentinel /\ ~t.red[Sentinel] /\ t \in Trees
      /\ \A s \in Sides : t.kid[s][Sentinel] = Sentinel
      /\ \A s \in Sides, n \in Nodes : t.kid[s][n] = Null
  BY CellsAre DEF EmptyTree, Trees
<1>2. SubOK(sub) /\ sub[t.root] = {}
  BY <1>1, CellsAre DEF SubOK
<1>3. Nested(t, sub)
  BY <1>1, <1>2, CellsAre DEF Nested, SubOK, Sides
<1>4. Leaved(t, sub)
  BY <1>1, <1>2 DEF Leaved
<1>5. Parented(t, sub)
  BY <1>1, <1>2, CellsAre DEF Parented
<1> HIDE DEF t, sub
<1>6. Kept(t, sub, {}, pos, t.key)
  BY <1>1, <1>2, <1>3, <1>4, <1>5 DEF Kept, Shaped, Sorted
<1>7. Even(t, {}, h)
  <2>1. h \in [Cells -> Nat] /\ h[Sentinel] = 0
    BY CellsAre
  <2> HIDE DEF h
  <2> QED
    BY <2>1, EvenIs
<1>8. \E f : Even(t, {}, f)
  BY <1>7
<1> HIDE DEF pos
<1>9. Balanced(t, sub, {}, pos, t.key) /\ KeysSorted({}, pos, t.key)
  BY <1>1, <1>6, <1>8 DEF Balanced, KeysSorted
<1> QED
  BY <1>9 DEF t

LEMMA TimersStart == TimersInit => TimersInv
<1> SUFFICES ASSUME TimersInit PROVE TimersInv
  OBVIOUS
<1>1. tree = EmptyTree /\ clock \in Nat /\ inRange \in BOOLEAN
  BY DEF TimersInit
<1>2. PICK sub, pos : Balanced(tree, sub, {}, pos, tree.key) /\ KeysSorted({}, pos, tree.key)
  BY <1>1, EmptyBalanced
<1> QED
  BY <1>1, <1>2 DEF TimersInv

\* What AddTimer and DelTimer make of the linked nodes and their keys.
LEMMA AddTimerStep ==
    ASSUME TimersInv, NEW n \in Nodes \ Linked(tree), NEW d \in Delays,
           tree' = Insert(tree, n, clock + d), inRange' = (inRange /\ Close(tree')), clock' = clock
    PROVE  /\ TimersInv'
           /\ Linked(tree') = Linked(tree) \cup {n} /\ Linked(tree) \subseteq Nodes
           /\ tree'.key[n] = clock + d
           /\ \A m \in Linked(tree) : tree'.key[m] = tree.key[m]
<1>1. PICK sub, L, pos : Balanced(tree, sub, L, pos, tree.key) /\ (inRange => KeysSorted(L, pos, tree.key))
  BY DEF TimersInv
<1>2. /\ Kept(tree, sub, L, pos, tree.key) /\ Linked(tree) = L /\ L \subseteq Nodes
      /\ tree.key \in [Cells -> Int] /\ n \in Cells /\ Nodes \subseteq Cells
  <2>1. Kept(tree, sub, L, pos, tree.key)
    BY <1>1 DEF Balanced
  <2>2. Linked(tree) = L
    BY <2>1, LinkedAre
  <2>3. tree \in Trees /\ Shaped(tree, sub) /\ L = sub[tree.root]
    BY <2>1 DEF Kept, Shaped
  <2>4. tree.key \in [Cells -> Int] /\ L \subseteq Nodes
    BY <2>3, TreeFields, CellsAre DEF Shaped, SubOK
  <2> QED
    BY <2>1, <2>2, <2>4, CellsAre
<1>3. clock + d \in Int
  BY TimersAssumption DEF TimersInv
<1>4. PICK key2 : key2 = [tree.key EXCEPT ![n] = clock + d]
  OBVIOUS
<1>5. PICK k : k = clock + d
  OBVIOUS
<1>6. PICK sub2, pos2 :
             /\ Balanced(tree', sub2, L \cup {n}, pos2, key2)
             /\ KeysSorted(L, pos, tree.key) /\ KeysClose(L \cup {n}, key2) => KeysSorted(L \cup {n}, pos2, key2)
  <2>1. key2 = [tree.key EXCEPT ![n] = k] /\ k \in Int /\ n \notin L /\ n \in Nodes
    BY <1>2, <1>3, <1>4, <1>5
  <2>2. \E sub2, pos2 :
             /\ Balanced(Insert(tree, n, k), sub2, L \cup {n}, pos2, key2)
             /\ KeysSorted(L, pos, tree.key) /\ KeysClose(L \cup {n}, key2) => KeysSorted(L \cup {n}, pos2, key2)
    BY <1>1, <2>1, InsertIs
  <2> QED
    BY <1>5, <2>2
<1>7. Kept(tree', sub2, L \cup {n}, pos2, key2) /\ tree'.key = key2
  BY <1>6 DEF Balanced, Kept
<1>8. Linked(tree') = L \cup {n}
  BY <1>7, LinkedAre
<1>9. inRange' => inRange /\ KeysClose(L \cup {n}, key2)
  BY <1>7, <1>8 DEF Close, KeysClose
<1>10. inRange' => KeysSorted(L \cup {n}, pos2, tree'.key)
  BY <1>1, <1>6, <1>7, <1>9
<1>11. inRange' \in BOOLEAN /\ clock' \in Nat
  BY DEF TimersInv
<1>12. Balanced(tree', sub2, L \cup {n}, pos2, tree'.key)
  BY <1>6, <1>7
<1>13. TimersInv'
  BY <1>10, <1>11, <1>12 DEF TimersInv
<1>14. tree'.key[n] = clock + d /\ \A m \in L : tree'.key[m] = tree.key[m]
  BY <1>2, <1>4, <1>7
<1> QED
  BY <1>2, <1>8, <1>13, <1>14

LEMMA DelTimerStep ==
    ASSUME TimersInv, NEW n \in Linked(tree),
           tree' = Paint(Delete(tree, n), n, FALSE), inRange' = inRange, clock' = clock
    PROVE  /\ TimersInv'
           /\ Linked(tree') = Linked(tree) \ {n}
           /\ \A m \in Linked(tree) \ {n} : tree'.key[m] = tree.key[m]
<1>1. PICK sub, L, pos : Balanced(tree, sub, L, pos, tree.key) /\ (inRange => KeysSorted(L, pos, tree.key))
  BY DEF TimersInv
<1>2. /\ Linked(tree) = L /\ L \subseteq Nodes /\ n \in L
      /\ tree.key \in [Cells -> Int] /\ Nodes \subseteq Cells
  <2>1. Kept(tree, sub, L, pos, tree.key)
    BY <1>1 DEF Balanced
  <2>2. Linked(tree) = L
    BY <2>1, LinkedAre
  <2>3. tree \in Trees /\ Shaped(tree, sub) /\ L = sub[tree.root]
    BY <2>1 DEF Kept, Shaped
  <2>4. tree.key \in [Cells -> Int] /\ L \subseteq Nodes
    BY <2>3, TreeFields, CellsAre DEF Shaped, SubOK
  <2> QED
    BY <2>1, <2>2, <2>4, CellsAre
<1>3. PICK key2 : key2 = [tree.key EXCEPT ![n] = 0]
  OBVIOUS
<1>4. PICK r : r = Delete(tree, n)
  OBVIOUS
<1>5. PICK sub2, pos2 :
             /\ Balanced(r, sub2, L \ {n}, pos2, key2)
             /\ KeysSorted(L, pos, tree.key) => KeysSorted(L \ {n}, pos2, key2)
  BY <1>1, <1>2, <1>3, <1>4, DeleteIs
<1>6. Balanced(tree', sub2, L \ {n}, pos2, key2)
  <2>1. Balanced(Paint(r, n, FALSE), sub2, L \ {n}, pos2, key2)
    BY <1>2, <1>5, PaintFree
  <2> QED
    BY <1>4, <2>1
<1>7. Kept(tree', sub2, L \ {n}, pos2, key2) /\ tree'.key = key2
  BY <1>6 DEF Balanced, Kept
<1>8. Linked(tree') = L \ {n}
  BY <1>7, LinkedAre
<1>9. inRange' => KeysSorted(L \ {n}, pos2, tree'.key)
  BY <1>1, <1>5, <1>7
<1>10. inRange' \in BOOLEAN /\ clock' \in Nat
  BY DEF TimersInv
<1>11. Balanced(tree', sub2, L \ {n}, pos2, tree'.key)
  BY <1>6, <1>7
<1>12. TimersInv'
  BY <1>9, <1>10, <1>11 DEF TimersInv
<1>13. \A m \in L \ {n} : tree'.key[m] = tree.key[m]
  BY <1>2, <1>3, <1>7
<1> QED
  BY <1>2, <1>8, <1>12, <1>13

\* get_min names a linked timer, or the sentinel.
LEMMA MinTimerIs ==
    ASSUME TimersInv, MinTimer # Sentinel
    PROVE  MinTimer \in Linked(tree) /\ tree.key[MinTimer] \in Int
<1>1. PICK sub, L, pos : Balanced(tree, sub, L, pos, tree.key)
  BY DEF TimersInv
<1>2. Kept(tree, sub, L, pos, tree.key) /\ tree \in Trees /\ Shaped(tree, sub) /\ L = sub[tree.root]
  BY <1>1 DEF Balanced, Kept, Shaped
<1>3. tree.root # Sentinel
  BY <1>2, LeastOfNone DEF MinTimer
<1>4. tree.root \in L /\ L \subseteq Nodes
  <2>1. tree.root \in Nodes
    BY <1>2, <1>3, TreeFields, CellsAre
  <2>2. tree.root \in L
    BY <1>2, <2>1, NodeIs, SidesAre
  <2> QED
    BY <1>2, <2>2, KeptNode
<1>5. Leftmost(tree, sub, pos, tree.root, MinTimer)
  BY <1>2, <1>4, LeastIs DEF MinTimer
<1>6. MinTimer \in L
  BY <1>2, <1>5 DEF Leftmost
<1>7. MinTimer \in Cells
  BY <1>4, <1>6, CellsAre
<1>8. tree.key[MinTimer] \in Int
  BY <1>2, <1>7, TreeFields
<1>9. Linked(tree) = L
  BY <1>2, LinkedAre
<1> QED
  BY <1>6, <1>8, <1>9

LEMMA HandleTimerStep ==
    ASSUME TimersInv, HandleTimer
    PROVE  /\ TimersInv'
           /\ clock' \in Nat /\ clock' >= clock /\ (clock' = clock \/ clock' = tree.key[MinTimer])
           /\ MinTimer \in Linked(tree)
<1>1. MinTimer \in Linked(tree) /\ tree.key[MinTimer] \in Int /\ clock \in Nat
  BY MinTimerIs DEF HandleTimer, TimersInv
<1>2. PICK k : k = tree.key[MinTimer]
  OBVIOUS
<1>3. clock' = Max({clock, k})
  BY <1>2 DEF HandleTimer
<1>4. Max({clock, k}) \in {clock, k} /\ \A y \in {clock, k} : Max({clock, k}) >= y
  <2>1. \E x \in {clock, k} : \A y \in {clock, k} : x >= y
    BY <1>1, <1>2
  <2> QED
    BY <2>1 DEF Max
<1>5. clock' \in Nat /\ clock' >= clock /\ (clock' = clock \/ clock' = k)
  BY <1>1, <1>2, <1>3, <1>4
<1>6. tree' = tree /\ inRange' = inRange
  BY DEF HandleTimer
<1>7. TimersInv'
  BY <1>5, <1>6 DEF TimersInv
<1> QED
  BY <1>1, <1>2, <1>5, <1>7

LEMMA TimersStep == TimersInv /\ [TimersNext]_timerVars => TimersInv'
<1> SUFFICES ASSUME TimersInv, [TimersNext]_timerVars PROVE TimersInv'
  OBVIOUS
<1>1. CASE AddTimer
  <2>1. PICK n \in Nodes \ Linked(tree), d \in Delays :
            /\ tree' = Insert(tree, n, clock + d) /\ inRange' = (inRange /\ Close(tree')) /\ clock' = clock
    BY <1>1 DEF AddTimer
  <2> QED
    BY <2>1, AddTimerStep
<1>2. CASE DelTimer
  <2>1. PICK n \in Linked(tree) : tree' = Paint(Delete(tree, n), n, FALSE) /\ inRange' = inRange /\ clock' = clock
    BY <1>2 DEF DelTimer
  <2> QED
    BY <2>1, DelTimerStep
<1>3. CASE HandleTimer
  BY <1>3, HandleTimerStep
<1>4. CASE ClockTicks
  BY <1>4 DEF ClockTicks, TimersInv
<1>5. CASE UNCHANGED timerVars
  BY <1>5 DEF timerVars, TimersInv
<1> QED
  BY <1>1, <1>2, <1>3, <1>4, <1>5 DEF TimersNext

\* The invariant of timer.c: whatever is added, handled and deleted, the tree of
\* ngx_rbtree.c is a balanced red-black tree of the linked nodes.
THEOREM TimersInvariant == TimersSpec => []TimersInv
<1>1. TimersInit => TimersInv
  BY TimersStart
<1>2. TimersInv /\ [TimersNext]_timerVars => TimersInv'
  BY TimersStep
<1> QED
  BY <1>1, <1>2, PTL DEF TimersSpec

\* For every number of nodes and every width of the keys: after any sequence of
\* ngx_rbtree_insert and ngx_rbtree_delete the tree is balanced and every linked
\* node but the root points at its parent.
THEOREM TimersBalanced == TimersSpec => []TreeBalanced
<1>1. TimersInv => TreeBalanced
  <2> SUFFICES ASSUME TimersInv PROVE TreeBalanced
    OBVIOUS
  <2>1. PICK sub, L, pos : Balanced(tree, sub, L, pos, tree.key)
    BY DEF TimersInv
  <2>2. Kept(tree, sub, L, pos, tree.key) /\ ~tree.red[tree.root] /\ ~tree.red[Sentinel]
    BY <2>1 DEF Balanced, Kept
  <2>3. Linked(tree) = L
    BY <2>2, LinkedAre
  <2>4. Cardinality(BlackHeights(tree)[tree.root]) = 1
    BY <2>1, BlackHeightsAre
  <2>5. ASSUME NEW n \in L, NEW s \in Sides, tree.kid[s][n] # Sentinel
        PROVE  tree.parent[tree.kid[s][n]] = n /\ ~(tree.red[n] /\ tree.red[tree.kid[s][n]])
    <3>1. tree.parent[tree.kid[s][n]] = n
      BY <2>2, <2>5, KeptNode
    <3>2. ~(tree.red[n] /\ tree.red[tree.kid[s][n]])
      BY <2>1 DEF Balanced
    <3> QED
      BY <3>1, <3>2
  <2> QED
    BY <2>2, <2>3, <2>4, <2>5 DEF TreeBalanced
<1> QED
  BY <1>1, TimersInvariant, PTL

\* One step of the timers is one of the set of pending timers, or none.
LEMMA TimersStepOfSet ==
    TimersInv /\ [TimersNext]_timerVars =>
        [Promise!AddPending \/ Promise!DropPending \/ Promise!Wait]_<<Pending, clock>>
<1> SUFFICES ASSUME TimersInv, [TimersNext]_timerVars
             PROVE  [Promise!AddPending \/ Promise!DropPending \/ Promise!Wait]_<<Pending, clock>>
  OBVIOUS
<1>1. CASE AddTimer
  <2>1. PICK n \in Nodes \ Linked(tree), d \in Delays :
            /\ tree' = Insert(tree, n, clock + d) /\ inRange' = (inRange /\ Close(tree')) /\ clock' = clock
    BY <1>1 DEF AddTimer
  <2>2. /\ Linked(tree') = Linked(tree) \cup {n} /\ tree'.key[n] = clock + d
        /\ \A m \in Linked(tree) : tree'.key[m] = tree.key[m]
    BY <2>1, AddTimerStep
  <2>3. Pending' = Pending \cup {[timer |-> n, due |-> clock + d]}
    <3>1. Pending' = {[timer |-> m, due |-> tree'.key[m]] : m \in Linked(tree')}
      BY DEF Pending
    <3> QED
      BY <2>2, <3>1 DEF Pending
  <2>4. \A p \in Pending : p.timer # n
    BY <2>1 DEF Pending
  <2>5. Promise!AddPending
    BY <2>1, <2>3, <2>4 DEF Promise!AddPending
  <2> QED
    BY <2>5
<1>2. CASE DelTimer
  <2>1. PICK n \in Linked(tree) : tree' = Paint(Delete(tree, n), n, FALSE) /\ inRange' = inRange /\ clock' = clock
    BY <1>2 DEF DelTimer
  <2>2. /\ Linked(tree') = Linked(tree) \ {n}
        /\ \A m \in Linked(tree) \ {n} : tree'.key[m] = tree.key[m]
    BY <2>1, DelTimerStep
  <2>3. Pending' = Pending \ {[timer |-> n, due |-> tree.key[n]]}
    <3>1. Pending' = {[timer |-> m, due |-> tree'.key[m]] : m \in Linked(tree')}
      BY DEF Pending
    <3> QED
      BY <2>2, <3>1 DEF Pending
  <2>4. [timer |-> n, due |-> tree.key[n]] \in Pending
    BY DEF Pending
  <2>5. Promise!DropPending
    BY <2>1, <2>3, <2>4 DEF Promise!DropPending
  <2> QED
    BY <2>5
<1>3. CASE HandleTimer
  <2>1. /\ clock' >= clock /\ (clock' = clock \/ clock' = tree.key[MinTimer]) /\ MinTimer \in Linked(tree)
        /\ clock \in Nat /\ tree' = tree
    BY <1>3, HandleTimerStep DEF HandleTimer, TimersInv
  <2>2. Pending' = Pending
    BY <2>1 DEF Pending
  <2>3. [timer |-> MinTimer, due |-> tree.key[MinTimer]] \in Pending
    BY <2>1 DEF Pending
  <2>4. clock' > clock + 1 => \E p \in Pending : p.due = clock'
    BY <2>1, <2>3
  <2>5. Promise!Wait
    BY <2>1, <2>2, <2>4 DEF Promise!Wait
  <2> QED
    BY <2>5
<1>4. CASE ClockTicks
  <2>1. tree' = tree /\ clock' = clock + 1 /\ clock \in Nat
    BY <1>4 DEF ClockTicks, TimersInv
  <2>2. Pending' = Pending
    BY <2>1 DEF Pending
  <2>3. Promise!Wait
    BY <2>1, <2>2 DEF Promise!Wait
  <2> QED
    BY <2>3
<1>5. CASE UNCHANGED timerVars
  <2>1. tree' = tree /\ clock' = clock
    BY <1>5 DEF timerVars
  <2>2. Pending' = Pending
    BY <2>1 DEF Pending
  <2> QED
    BY <2>1, <2>2
<1> QED
  BY <1>1, <1>2, <1>3, <1>4, <1>5 DEF TimersNext

\* timer.c implements the set of pending timers, whatever the tree does inside:
\* add_timer adds the one timer, del_timer drops the one, and handle_timer
\* waits until a pending timer is due.
THEOREM TimersImplementSet == TimersSpec => ImplementsTimerSet
<1>1. TimersInit => Promise!TimerSetInit
  <2> SUFFICES ASSUME TimersInit PROVE Promise!TimerSetInit
    OBVIOUS
  <2>1. tree = EmptyTree /\ clock = 0
    BY DEF TimersInit
  <2>2. Linked(tree) = {}
    <3>1. PICK sub, pos : Balanced(tree, sub, {}, pos, tree.key)
      BY <2>1, EmptyBalanced
    <3>2. Kept(tree, sub, {}, pos, tree.key)
      BY <3>1 DEF Balanced
    <3> QED
      BY <3>2, LinkedAre
  <2> QED
    BY <2>1, <2>2 DEF Promise!TimerSetInit, Pending
<1>2. TimersInv /\ [TimersNext]_timerVars =>
        [Promise!AddPending \/ Promise!DropPending \/ Promise!Wait]_<<Pending, clock>>
  BY TimersStepOfSet
<1> QED
  BY <1>1, <1>2, TimersInvariant, PTL DEF TimersSpec, ImplementsTimerSet, Promise!TimerSetSpec

----------------------------------------------------------------------------
(* The walk with ngx_rbtree_next. *)

\* s comes next after n, or is Null when no node does.
NextIs(L, pos, n, s) ==
    \/ s = Null /\ \A b \in L : ~(pos[n] < pos[b])
    \/ s \in L /\ pos[n] < pos[s] /\ \A b \in L : pos[n] < pos[b] => b = s \/ pos[s] < pos[b]

\* n is the last of the nodes below a, and a is no right child.
LastBelow(t, sub, L, pos, n, a) ==
    /\ a \in L /\ n \in sub[a] /\ \A b \in sub[a] : b = n \/ pos[b] < pos[n]
    /\ a = t.root \/ a = t.kid["left"][t.parent[a]]

\* The parent of such an a comes next.
LEMMA ParentNext ==
    ASSUME NEW t, NEW sub, NEW L, NEW pos, NEW key, Kept(t, sub, L, pos, key),
           NEW n \in L, NEW a, LastBelow(t, sub, L, pos, n, a), a # t.root, NEW p, p = t.parent[a]
    PROVE  p \in L /\ NextIs(L, pos, n, p)
<1>1. /\ Shaped(t, sub) /\ L = sub[t.root] /\ pos \in [Nodes -> Int] /\ L \subseteq Nodes
      /\ "left" \in Sides /\ "right" \in Sides /\ Other("left") = "right" /\ Other("right") = "left"
      /\ \A x \in Sides : x = "left" \/ x = "right"
  <2>1. Shaped(t, sub) /\ L = sub[t.root] /\ pos \in [Nodes -> Int]
    BY DEF Kept, Sorted
  <2>2. L \subseteq Nodes
    BY KeptNode
  <2> QED
    BY <2>1, <2>2 DEF Sides, Other
<1>2. a \in L /\ n \in sub[a] /\ (\A b \in sub[a] : b = n \/ pos[b] < pos[n]) /\ a = t.kid["left"][p]
  BY DEF LastBelow
<1>3. p \in L
  BY <1>1, <1>2 DEF Shaped, Parented
<1>4. \A c \in L, x \in Sides : \A m \in sub[t.kid[x][c]] : Toward(x, pos[m], pos[c])
  BY <1>1 DEF Kept, Sorted, SortedAt
<1>5. pos[n] < pos[p]
  <2>1. Toward("left", pos[n], pos[p])
    BY <1>1, <1>2, <1>3, <1>4
  <2> QED
    BY <2>1 DEF Toward
<1>6. ASSUME NEW b \in L, pos[n] < pos[b] PROVE b = p \/ pos[p] < pos[b]
  <2> SUFFICES ASSUME b # p PROVE pos[p] < pos[b]
    OBVIOUS
  <2>1. pos[n] \in Int /\ pos[b] \in Int /\ pos[p] \in Int
    BY <1>1, <1>3
  <2>2. PICK c \in L, x \in Sides : /\ p = c \/ p \in sub[t.kid[x][c]]
                                    /\ b = c \/ b \in sub[t.kid[Other(x)][c]]
    BY <1>1, <1>3, Fork
  <2>3. Other(x) \in Sides /\ pos[c] \in Int
    BY <1>1
  <2>4. CASE p = c
    <3>1. b \in sub[t.kid[Other(x)][p]]
      BY <2>2, <2>4
    <3>2. CASE Other(x) = "right"
      <4>1. Toward("right", pos[b], pos[p])
        BY <1>1, <1>3, <1>4, <3>1, <3>2
      <4> QED
        BY <4>1 DEF Toward
    <3>3. CASE Other(x) = "left"
      <4>1. b \in sub[a]
        BY <1>2, <3>1, <3>3
      <4>2. b = n \/ pos[b] < pos[n]
        BY <1>2, <4>1
      <4> QED
        BY <1>6, <2>1, <4>2
    <3> QED
      BY <1>1, <2>3, <3>2, <3>3
  <2>5. CASE p # c
    <3>1. p \in sub[t.kid[x][c]] /\ Toward(x, pos[p], pos[c])
      BY <1>4, <2>2, <2>5
    <3>2. b = c \/ Toward(Other(x), pos[b], pos[c])
      BY <1>4, <2>2, <2>3
    <3>3. n \in sub[t.kid[x][c]]
      <4>1. sub[t.kid["left"][p]] \subseteq sub[p] /\ p \in Nodes
        BY <1>1, <1>3, NodeIs
      <4>2. t.kid[x][c] \in Ptrs
        BY <1>1, NodeIs
      <4>3. sub[p] \subseteq sub[t.kid[x][c]]
        BY <1>1, <3>1, <4>1, <4>2, Laminar
      <4> QED
        BY <1>2, <4>1, <4>3
    <3>4. Toward(x, pos[n], pos[c])
      BY <1>4, <3>3
    <3>5. CASE x = "left"
      <4>1. pos[p] < pos[c] /\ (b = c \/ pos[c] < pos[b])
        BY <1>1, <3>1, <3>2, <3>5 DEF Toward
      <4> QED
        BY <2>1, <2>3, <4>1
    <3>6. CASE x = "right"
      <4>1. pos[c] < pos[n] /\ (b = c \/ pos[b] < pos[c])
        BY <1>1, <3>2, <3>4, <3>6 DEF Toward
      <4> QED
        BY <1>6, <2>1, <2>3, <4>1
    <3> QED
      BY <1>1, <3>5, <3>6
  <2> QED
    BY <2>4, <2>5
<1> QED
  BY <1>3, <1>5, <1>6 DEF NextIs

\* The loop up ends there.
LEMMA ClimbIs ==
    ASSUME NEW t, NEW sub, NEW L, NEW pos, NEW key, Kept(t, sub, L, pos, key),
           NEW n \in L, t.kid["right"][n] = Sentinel
    PROVE  \E a : /\ LastBelow(t, sub, L, pos, n, a)
                  /\ Climb(t, n) = IF a = t.root THEN Null ELSE t.parent[a]
<1> DEFINE S == {a \in L : n \in sub[a] /\ \A b \in sub[a] : b = n \/ pos[b] < pos[n]}
           Stop(a) == a = t.root \/ a = t.kid["left"][t.parent[a]]
           f == CHOOSE top : top = [i \in 0..Rounds |-> IF i = 0 THEN n ELSE Up(t, top[i - 1])]
<1>1. /\ Shaped(t, sub) /\ L = sub[t.root] /\ L \subseteq Nodes /\ n \in Nodes /\ Rounds \in Nat
      /\ pos \in [Nodes -> Int] /\ "left" \in Sides /\ "right" \in Sides /\ Other("left") = "right"
      /\ \A a \in L : sub[a] \subseteq L
  <2>1. Shaped(t, sub) /\ L = sub[t.root] /\ pos \in [Nodes -> Int]
    BY DEF Kept, Sorted
  <2>2. L \subseteq Nodes /\ n \in Nodes
    BY KeptNode
  <2>3. Rounds \in Nat
    BY CellsAre, FS_CardinalityType DEF Rounds
  <2>4. "left" \in Sides /\ "right" \in Sides /\ Other("left") = "right"
    BY DEF Sides, Other
  <2>5. \A a \in L : sub[a] \subseteq L
    BY <2>1, LinkedIs
  <2> QED
    BY <2>1, <2>2, <2>3, <2>4, <2>5
<1>2. ASSUME NEW a \in L
      PROVE  /\ a \in sub[a] /\ sub[a] = {a} \cup sub[t.kid["left"][a]] \cup sub[t.kid["right"][a]]
             /\ \A b \in sub[t.kid["left"][a]] : pos[b] < pos[a]
             /\ \A b \in sub[t.kid["right"][a]] : pos[a] < pos[b]
  <2>1. a \in sub[a] /\ sub[a] = {a} \cup sub[t.kid["left"][a]] \cup sub[t.kid["right"][a]]
    BY <1>1, NodeIs
  <2>2. \A x \in Sides : \A m \in sub[t.kid[x][a]] : Toward(x, pos[m], pos[a])
    BY <1>1 DEF Kept, Sorted, SortedAt
  <2>3. "right" # "left"
    OBVIOUS
  <2> QED
    BY <1>1, <2>1, <2>2, <2>3 DEF Toward
<1>3. ASSUME NEW a \in S
      PROVE  /\ Up(t, a) \in S /\ Cardinality(sub[a]) \in Nat /\ Cardinality(sub[a]) > 0
             /\ Cardinality(sub[a]) <= Rounds
             /\ Stop(a) => Up(t, a) = a
             /\ ~Stop(a) => Cardinality(sub[a]) < Cardinality(sub[Up(t, a)])
  <2>1. a \in Nodes /\ a \in L /\ a \in Ptrs /\ n \in sub[a] /\ \A b \in sub[a] : b = n \/ pos[b] < pos[n]
    BY <1>1, CellsAre
  <2> HIDE DEF S
  <2>2. Cardinality(sub[a]) \in Nat /\ Cardinality(sub[a]) <= Rounds /\ Cardinality(sub[a]) > 0
    <3>1. Cardinality(sub[a]) \in Nat /\ Cardinality(sub[a]) <= Rounds /\ IsFiniteSet(sub[a])
      BY <1>1, <2>1, SubFinite DEF Shaped
    <3>2. a \in sub[a]
      BY <1>2, <2>1
    <3> QED
      BY <3>1, <3>2, FS_EmptySet
  <2>3. CASE Stop(a)
    <3>1. Up(t, a) = a
      BY <2>3 DEF Up
    <3> QED
      BY <2>2, <2>3, <3>1
  <2>4. CASE ~Stop(a)
    <3>1. PICK p : p = t.parent[a]
      OBVIOUS
    <3>2. Up(t, a) = p
      BY <2>4, <3>1 DEF Up
    <3>3. p \in L /\ a = t.kid["right"][p]
      <4>1. p \in L /\ Hangs(t, a)
        BY <1>1, <2>1, <2>4, <3>1 DEF Shaped, Parented
      <4> QED
        BY <2>4, <3>1, <4>1 DEF Hangs, Sides
    <3>4. Cardinality(sub[a]) < Cardinality(sub[p])
      BY <1>1, <3>3, KidSmaller
    <3>5. n \in sub[p] /\ pos[p] < pos[n]
      BY <1>2, <2>1, <3>3
    <3>6. ASSUME NEW b \in sub[p] PROVE b = n \/ pos[b] < pos[n]
      <4>1. b = p \/ b \in sub[t.kid["left"][p]] \/ b \in sub[a]
        BY <1>2, <3>3
      <4>2. CASE b \in sub[a]
        BY <2>1, <4>2
      <4>3. CASE b = p
        BY <3>5, <4>3
      <4>4. CASE b \in sub[t.kid["left"][p]]
        <5>1. pos[b] < pos[p]
          BY <1>2, <3>3, <4>4
        <5>2. pos[b] \in Int /\ pos[p] \in Int /\ pos[n] \in Int
          BY <1>1, <3>3
        <5> QED
          BY <3>5, <5>1, <5>2
      <4> QED
        BY <4>1, <4>2, <4>3, <4>4
    <3>7. p \in S
      BY <3>3, <3>5, <3>6 DEF S
    <3> QED
      BY <2>2, <2>4, <3>2, <3>4, <3>7
  <2> QED
    BY <2>3, <2>4
<1>4. n \in S
  <2>1. sub[t.kid["right"][n]] = {}
    BY <1>1 DEF Shaped, SubOK
  <2>2. n \in sub[n] /\ \A b \in sub[n] : b = n \/ pos[b] < pos[n]
    BY <1>2, <2>1
  <2> QED
    BY <2>2
<1>5. f = [i \in 0..Rounds |-> IF i = 0 THEN n ELSE Up(t, f[i - 1])]
  <2> DEFINE g == [a \in S |-> Up(t, a)]
  <2> HIDE DEF S
  <2>1. Round(g, S)
    BY <1>3 DEF Round
  <2>2. \E h : LoopOf(h, S, g, n, Rounds)
    <3> HIDE DEF g
    <3> QED
      BY <1>1, <1>4, <2>1, LoopExists
  <2>3. PICK h \in [0..Rounds -> S] : h[0] = n /\ \A i \in 1..Rounds : h[i] = g[h[i - 1]]
    BY <2>2 DEF LoopOf
  <2>4. ASSUME NEW i \in 0..Rounds, i # 0 PROVE h[i] = Up(t, h[i - 1])
    <3>1. i \in 1..Rounds /\ i - 1 \in 0..Rounds
      BY <1>1, <2>4
    <3>2. h[i - 1] \in S /\ h[i] = g[h[i - 1]]
      BY <2>3, <3>1
    <3> QED
      BY <3>2
  <2>5. h = [i \in 0..Rounds |-> IF i = 0 THEN n ELSE Up(t, h[i - 1])]
    BY <2>3, <2>4
  <2> QED
    BY <2>5, Zenon
<1> HIDE DEF f
<1>6. f[0] = n /\ \A i \in 0..Rounds : i # Rounds => f[i + 1] = Up(t, f[i])
  <2>1. f[0] = n
    BY <1>1, <1>5
  <2>2. ASSUME NEW i \in 0..Rounds, i # Rounds PROVE f[i + 1] = Up(t, f[i])
    <3>1. i + 1 \in 0..Rounds /\ i + 1 # 0 /\ (i + 1) - 1 = i
      BY <1>1, <2>2
    <3> QED
      BY <1>5, <3>1
  <2> QED
    BY <2>1, <2>2
<1> DEFINE I == {w \in (0..Rounds) \X S : Stop(w[2]) \/ w[1] < Cardinality(sub[w[2]])}
<1> HIDE DEF S
<1>7. <<0, f[0]>> \in I
  BY <1>1, <1>3, <1>4, <1>6
<1>8. ASSUME NEW i \in 0..Rounds, i # Rounds, <<i, f[i]>> \in I
      PROVE  <<i + 1, f[i + 1]>> \in I
  <2>1. PICK a \in S : a = f[i] /\ (Stop(a) \/ i < Cardinality(sub[a]))
    BY <1>8
  <2>2. PICK b : b = Up(t, a)
    OBVIOUS
  <2>3. i + 1 \in 0..Rounds /\ f[i + 1] = b /\ i \in Nat
    BY <1>1, <1>6, <1>8, <2>1, <2>2
  <2>4. b \in S
    BY <1>3, <2>1, <2>2
  <2>5. Stop(b) \/ i + 1 < Cardinality(sub[b])
    <3>1. CASE Stop(a)
      BY <1>3, <2>1, <2>2, <3>1
    <3>2. CASE ~Stop(a)
      <4>1. /\ Cardinality(sub[a]) \in Nat /\ Cardinality(sub[b]) \in Nat
            /\ Cardinality(sub[a]) < Cardinality(sub[b]) /\ i < Cardinality(sub[a])
        BY <1>3, <2>1, <2>2, <2>4, <3>2
      <4> QED
        BY <1>1, <2>3, <4>1
    <3> QED
      BY <3>1, <3>2
  <2> QED
    BY <2>3, <2>4, <2>5
<1>9. <<Rounds, f[Rounds]>> \in I
  <2> HIDE DEF I
  <2>1. \A i \in 0..Rounds : <<i, f[i]>> \in I
    BY <1>1, <1>7, <1>8, LoopKeeps
  <2> QED
    BY <1>1, <2>1
<1>10. PICK a \in S : a = f[Rounds] /\ (Stop(a) \/ Rounds < Cardinality(sub[a]))
  BY <1>9
<1>11. Stop(a)
  <2>1. Cardinality(sub[a]) \in Nat /\ Cardinality(sub[a]) <= Rounds
    BY <1>3
  <2> QED
    BY <1>1, <1>10, <2>1
<1>12. Climb(t, n) = IF a = t.root THEN Null ELSE t.parent[a]
  <2>1. Climb(t, n) = IF f[Rounds] = t.root THEN Null ELSE t.parent[f[Rounds]]
    BY Zenon DEF Climb, f
  <2> QED
    BY <1>10, <2>1
<1>13. LastBelow(t, sub, L, pos, n, a)
  BY <1>11 DEF S, LastBelow
<1> QED
  BY <1>12, <1>13

\* ngx_rbtree_next goes to the node that comes next.
LEMMA SuccessorIs ==
    ASSUME NEW t, NEW sub, NEW L, NEW pos, NEW key, Kept(t, sub, L, pos, key), NEW n \in L
    PROVE  NextIs(L, pos, n, Successor(t, n))
<1>1. CASE t.kid["right"][n] # Sentinel
  <2>1. PICK s : s = Least(t, t.kid["right"][n])
    OBVIOUS
  <2>2. s \in L /\ pos[n] < pos[s] /\ \A b \in L : pos[n] < pos[b] => b = s \/ pos[s] < pos[b]
    BY <1>1, <2>1, NextOnRight
  <2>3. Successor(t, n) = s
    BY <1>1, <2>1 DEF Successor
  <2> QED
    BY <2>2, <2>3 DEF NextIs
<1>2. CASE t.kid["right"][n] = Sentinel
  <2>1. PICK a : /\ LastBelow(t, sub, L, pos, n, a)
                 /\ Climb(t, n) = IF a = t.root THEN Null ELSE t.parent[a]
    BY <1>2, ClimbIs
  <2>2. Successor(t, n) = Climb(t, n)
    BY <1>2 DEF Successor
  <2>3. CASE a = t.root
    <3>1. \A b \in L : b = n \/ pos[b] < pos[n]
      BY <2>1, <2>3 DEF LastBelow, Kept
    <3>2. \A b \in L : pos[b] \in Int
      <4>1. pos \in [Nodes -> Int] /\ L \subseteq Nodes
        BY KeptNode DEF Kept, Sorted
      <4> QED
        BY <4>1
    <3>3. \A b \in L : ~(pos[n] < pos[b])
      BY <3>1, <3>2
    <3> QED
      BY <2>1, <2>2, <2>3, <3>3 DEF NextIs
  <2>4. CASE a # t.root
    <3>1. PICK p : p = t.parent[a]
      OBVIOUS
    <3>2. NextIs(L, pos, n, p)
      BY <2>1, <2>4, <3>1, ParentNext
    <3> QED
      BY <2>1, <2>2, <2>4, <3>1, <3>2
  <2> QED
    BY <2>3, <2>4
<1> QED
  BY <1>1, <1>2

\* The nodes up to y.
UpTo(L, pos, y) == {m \in L : pos[m] <= pos[y]}

LEMMA UpToNext ==
    ASSUME NEW L, NEW pos, \A m \in L : pos[m] \in Int, NEW n \in L, NEW s \in L,
           NextIs(L, pos, n, s), s # Null
    PROVE  pos[n] < pos[s] /\ UpTo(L, pos, s) = UpTo(L, pos, n) \cup {s} /\ s \notin UpTo(L, pos, n)
<1>1. pos[n] < pos[s] /\ \A b \in L : pos[n] < pos[b] => b = s \/ pos[s] < pos[b]
  BY DEF NextIs
<1>2. ASSUME NEW m \in L PROVE pos[m] <= pos[s] <=> pos[m] <= pos[n] \/ m = s
  <2>1. pos[m] \in Int /\ pos[n] \in Int /\ pos[s] \in Int
    OBVIOUS
  <2> QED
    BY <1>1, <2>1
<1>3. ~(pos[s] <= pos[n])
  BY <1>1
<1> QED
  BY <1>1, <1>2, <1>3 DEF UpTo

\* f starts from the least node and goes on from each node to the next one.
GoesOn(t, L, f, k) ==
    f[0] = Least(t, t.root) /\ \A i \in 1..k : f[i - 1] \in L => f[i] = Successor(t, f[i - 1])

\* f comes by all nodes, from left to right.
Visits(t, L, pos, f, k) ==
    /\ \A i \in 0..k : f[i] \in L
    /\ {f[i] : i \in 0..k} = L
    /\ Successor(t, f[k]) = Null
    /\ \A i \in 0..k : i # k => pos[f[i]] < pos[f[i + 1]]

LEMMA GoesOnVisits ==
    ASSUME NEW t, NEW sub, NEW L, NEW pos, NEW key, Kept(t, sub, L, pos, key), t.root \in L,
           NEW k \in Nat, Cardinality(L) = k + 1, NEW f, GoesOn(t, L, f, k)
    PROVE  Visits(t, L, pos, f, k)
<1> DEFINE I == {w \in (0..k) \X L : /\ UpTo(L, pos, w[2]) = {f[j] : j \in 0..w[1]}
                                     /\ Cardinality(UpTo(L, pos, w[2])) = w[1] + 1}
<1>1. /\ Shaped(t, sub) /\ L = sub[t.root] /\ L \subseteq Nodes /\ IsFiniteSet(L) /\ Null \notin L
      /\ pos \in [Nodes -> Int] /\ \A m \in L : pos[m] \in Int
  <2>1. Shaped(t, sub) /\ L = sub[t.root] /\ pos \in [Nodes -> Int]
    BY DEF Kept, Sorted
  <2>2. L \subseteq Nodes
    BY KeptNode
  <2>3. IsFiniteSet(L) /\ Null \notin L
    BY <2>2, CellsAre, FS_Subset
  <2> QED
    BY <2>1, <2>2, <2>3
<1>2. \A y \in L : /\ UpTo(L, pos, y) \subseteq L /\ IsFiniteSet(UpTo(L, pos, y))
                   /\ Cardinality(UpTo(L, pos, y)) = Cardinality(L) => UpTo(L, pos, y) = L
  <2> SUFFICES ASSUME NEW y \in L
               PROVE  /\ UpTo(L, pos, y) \subseteq L /\ IsFiniteSet(UpTo(L, pos, y))
                      /\ Cardinality(UpTo(L, pos, y)) = Cardinality(L) => UpTo(L, pos, y) = L
    OBVIOUS
  <2>1. UpTo(L, pos, y) \in SUBSET L
    BY DEF UpTo
  <2> QED
    BY <1>1, <2>1, FS_Subset
<1>3. \A n \in L : NextIs(L, pos, n, Successor(t, n))
  BY SuccessorIs
<1>4. <<0, f[0]>> \in I
  <2>1. PICK m : m = Least(t, t.root)
    OBVIOUS
  <2>2. Leftmost(t, sub, pos, t.root, m)
    BY <2>1, LeastIs
  <2>3. m \in L /\ \A b \in L : b = m \/ pos[m] < pos[b]
    BY <1>1, <2>2 DEF Leftmost
  <2>4. UpTo(L, pos, m) = {m}
    <3>1. ASSUME NEW b \in L PROVE pos[b] <= pos[m] <=> b = m
      BY <1>1, <2>3
    <3> QED
      BY <2>3, <3>1 DEF UpTo
  <2>5. f[0] = m
    BY <2>1 DEF GoesOn
  <2>6. {f[j] : j \in 0..0} = {m}
    BY <2>5
  <2>7. Cardinality({m}) = 0 + 1
    BY FS_Singleton
  <2>8. 0 \in 0..k
    OBVIOUS
  <2> QED
    BY <2>3, <2>4, <2>5, <2>6, <2>7, <2>8
<1>5. ASSUME NEW i \in 0..k, i # k, <<i, f[i]>> \in I
      PROVE  <<i + 1, f[i + 1]>> \in I
  <2>1. PICK y : y = f[i]
    OBVIOUS
  <2>2. /\ y \in L /\ UpTo(L, pos, y) = {f[j] : j \in 0..i} /\ Cardinality(UpTo(L, pos, y)) = i + 1
    BY <1>5, <2>1
  <2>3. i \in Nat /\ i + 1 \in 1..k /\ i + 1 \in 0..k /\ (i + 1) - 1 = i
    BY <1>5
  <2>4. PICK s : s = Successor(t, y)
    OBVIOUS
  <2>5. f[i + 1] = s
    BY <2>1, <2>2, <2>3, <2>4 DEF GoesOn
  <2>6. NextIs(L, pos, y, s)
    BY <1>3, <2>2, <2>4
  <2>7. s \in L
    <3> SUFFICES ASSUME s \notin L PROVE FALSE
      OBVIOUS
    <3>1. \A b \in L : ~(pos[y] < pos[b])
      BY <2>6 DEF NextIs
    <3>2. UpTo(L, pos, y) = L
      BY <1>1, <2>2, <3>1 DEF UpTo
    <3> QED
      BY <1>5, <2>2, <2>3, <3>2
  <2>8. s # Null
    BY <1>1, <2>7
  <2>9. UpTo(L, pos, s) = UpTo(L, pos, y) \cup {s} /\ s \notin UpTo(L, pos, y)
    BY <1>1, <2>2, <2>6, <2>7, <2>8, UpToNext
  <2>10. {f[j] : j \in 0..(i + 1)} = {f[j] : j \in 0..i} \cup {f[i + 1]}
    <3>1. \A j : j \in 0..(i + 1) <=> j \in 0..i \/ j = i + 1
      BY <2>3
    <3> QED
      BY <3>1
  <2>11. Cardinality(UpTo(L, pos, s)) = (i + 1) + 1
    BY <1>2, <2>2, <2>9, FS_AddElement, ZenonT(40)
  <2> QED
    BY <2>2, <2>3, <2>5, <2>7, <2>9, <2>10, <2>11
<1>6. \A i \in 0..k : <<i, f[i]>> \in I
  <2> HIDE DEF I
  <2> QED
    BY <1>4, <1>5, LoopKeeps
<1>7. \A i \in 0..k : f[i] \in L
  BY <1>6
<1>8. UpTo(L, pos, f[k]) = {f[j] : j \in 0..k} /\ Cardinality(UpTo(L, pos, f[k])) = k + 1
  <2>1. <<k, f[k]>> \in I
    BY <1>6
  <2> QED
    BY <2>1
<1> HIDE DEF I
<1>9. f[k] \in L /\ UpTo(L, pos, f[k]) = L
  BY <1>2, <1>7, <1>8
<1>10. Successor(t, f[k]) = Null
  <2>1. PICK s : s = Successor(t, f[k])
    OBVIOUS
  <2>2. NextIs(L, pos, f[k], s)
    BY <1>3, <1>9, <2>1
  <2>3. ASSUME s \in L, pos[f[k]] < pos[s] PROVE FALSE
    <3>1. pos[s] <= pos[f[k]]
      BY <1>9, <2>3 DEF UpTo
    <3> QED
      BY <1>1, <1>9, <2>3, <3>1
  <2> QED
    BY <2>1, <2>2, <2>3 DEF NextIs
<1>11. ASSUME NEW i \in 0..k, i # k PROVE pos[f[i]] < pos[f[i + 1]]
  <2>1. i + 1 \in 1..k /\ i + 1 \in 0..k /\ (i + 1) - 1 = i
    BY <1>11
  <2>2. f[i] \in L /\ f[i + 1] \in L
    BY <1>7, <2>1
  <2>3. f[i + 1] = Successor(t, f[i])
    BY <2>1, <2>2 DEF GoesOn
  <2>4. NextIs(L, pos, f[i], f[i + 1])
    BY <1>3, <2>2, <2>3
  <2> QED
    BY <1>1, <2>2, <2>4 DEF NextIs
<1> QED
  BY <1>7, <1>8, <1>9, <1>10, <1>11 DEF Visits

\* There is such an f.
LEMMA GoingExists ==
    ASSUME NEW t, NEW sub, NEW L, NEW pos, NEW key, Kept(t, sub, L, pos, key), t.root \in L,
           NEW k \in Nat, Cardinality(L) = k + 1
    PROVE  \E f : GoesOn(t, L, f, k)
<1> DEFINE S == L \cup {Null}
           g == [y \in S |-> IF y \in L THEN Successor(t, y) ELSE Null]
<1>1. Round(g, S)
  <2>1. ASSUME NEW y \in L PROVE Successor(t, y) \in S
    <3>1. NextIs(L, pos, y, Successor(t, y))
      BY SuccessorIs
    <3> QED
      BY <3>1 DEF NextIs
  <2> QED
    BY <2>1 DEF Round
<1>2. Least(t, t.root) \in S
  <2>1. Leftmost(t, sub, pos, t.root, Least(t, t.root))
    BY LeastIs
  <2> QED
    BY <2>1 DEF Leftmost, Kept
<1>3. \E f : LoopOf(f, S, g, Least(t, t.root), k)
  <2> HIDE DEF g, S
  <2> QED
    BY <1>1, <1>2, LoopExists
<1>4. PICK f : LoopOf(f, S, g, Least(t, t.root), k)
  BY <1>3
<1>5. f[0] = Least(t, t.root) /\ \A i \in 1..k : f[i] = g[f[i - 1]]
  BY <1>4 DEF LoopOf
<1>6. \A i \in 1..k : f[i - 1] \in L => f[i] = Successor(t, f[i - 1])
  BY <1>5
<1> QED
  BY <1>5, <1>6 DEF GoesOn

\* The walk of the model, which counts from one.
LEMMA WalkIs ==
    ASSUME NEW t, NEW sub, NEW L, NEW pos, NEW key, Kept(t, sub, L, pos, key), t.root \in L,
           NEW k \in Nat, Cardinality(L) = k + 1
    PROVE  Visits(t, L, pos, [i \in 0..k |-> Walk(t)[i + 1]], k)
<1> DEFINE is(w) == w = [i \in 1..Cardinality(L) |->
                            IF i = 1 THEN Least(t, t.root) ELSE Successor(t, w[i - 1])]
<1>1. 1..Cardinality(L) = 1..(k + 1)
  OBVIOUS
<1>2. \E w : is(w)
  <2>1. PICK f : GoesOn(t, L, f, k)
    BY GoingExists
  <2>2. Visits(t, L, pos, f, k)
    BY <2>1, GoesOnVisits
  <2>3. \A i \in 0..k : f[i] \in L
    BY <2>2 DEF Visits
  <2>4. PICK w : w = [i \in 1..(k + 1) |-> f[i - 1]]
    OBVIOUS
  <2>5. ASSUME NEW i \in 1..(k + 1)
        PROVE  w[i] = IF i = 1 THEN Least(t, t.root) ELSE Successor(t, w[i - 1])
    <3>1. w[i] = f[i - 1]
      BY <2>4
    <3>2. CASE i = 1
      BY <2>1, <3>1, <3>2 DEF GoesOn
    <3>3. CASE i # 1
      <4>1. i - 1 \in 1..k /\ i - 1 \in 1..(k + 1) /\ (i - 1) - 1 \in 0..k
        BY <3>3
      <4>2. w[i - 1] = f[(i - 1) - 1] /\ f[(i - 1) - 1] \in L
        BY <2>3, <2>4, <4>1
      <4>3. f[i - 1] = Successor(t, f[(i - 1) - 1])
        BY <2>1, <4>1, <4>2 DEF GoesOn
      <4> QED
        BY <3>1, <3>3, <4>2, <4>3
    <3> QED
      BY <3>2, <3>3
  <2>6. w = [i \in 1..(k + 1) |-> w[i]]
    BY <2>4
  <2>7. is(w)
    BY <1>1, <2>5, <2>6
  <2> QED
    BY <2>7
<1>3. Walk(t) = CHOOSE w : is(w)
  <2>1. Linked(t) = L
    BY LinkedAre
  <2>2. Walk(t) = CHOOSE w : w = [i \in 1..Cardinality(Linked(t)) |->
                                     IF i = 1 THEN Least(t, t.root) ELSE Successor(t, w[i - 1])]
    BY Zenon DEF Walk
  <2> QED
    BY <2>1, <2>2
<1> HIDE DEF is
<1>4. is(Walk(t))
  BY <1>2, <1>3
<1>5. PICK w : w = Walk(t)
  OBVIOUS
<1>6. \A i \in 1..(k + 1) : w[i] = IF i = 1 THEN Least(t, t.root) ELSE Successor(t, w[i - 1])
  <2>1. w = [i \in 1..Cardinality(L) |->
                IF i = 1 THEN Least(t, t.root) ELSE Successor(t, w[i - 1])]
    BY <1>4, <1>5 DEF is
  <2> QED
    BY <1>1, <2>1
<1>7. PICK f : f = [i \in 0..k |-> w[i + 1]]
  OBVIOUS
<1>8. GoesOn(t, L, f, k)
  <2>1. f[0] = Least(t, t.root)
    <3>1. f[0] = w[1]
      BY <1>7
    <3> QED
      BY <1>6, <3>1
  <2>2. ASSUME NEW i \in 1..k PROVE f[i] = Successor(t, f[i - 1])
    <3>1. i + 1 \in 1..(k + 1) /\ i + 1 # 1 /\ (i + 1) - 1 = i /\ (i - 1) + 1 = i
          /\ i \in 0..k /\ i - 1 \in 0..k
      OBVIOUS
    <3>2. f[i] = w[i + 1] /\ f[i - 1] = w[i]
      BY <1>7, <3>1
    <3>3. w[i + 1] = Successor(t, w[i])
      BY <1>6, <3>1
    <3> QED
      BY <3>2, <3>3
  <2> QED
    BY <2>1, <2>2 DEF GoesOn
<1>9. Visits(t, L, pos, f, k)
  BY <1>8, GoesOnVisits
<1> QED
  BY <1>5, <1>7, <1>9

\* While all keys have been less than half their range apart, get_min is due
\* first and ngx_rbtree_next goes on by due time, to the last timer.
THEOREM TimersEarliestFirst == TimersSpec => []EarliestFirst
<1>1. TimersInv => EarliestFirst
  <2> SUFFICES ASSUME TimersInv, inRange, tree.root # Sentinel
               PROVE  /\ {Walk(tree)[i] : i \in 1..Cardinality(Linked(tree))} = Linked(tree)
                      /\ Successor(tree, Walk(tree)[Cardinality(Linked(tree))]) = Null
                      /\ \A i \in 1..Cardinality(Linked(tree)) - 1 :
                            tree.key[Walk(tree)[i]] <= tree.key[Walk(tree)[i + 1]]
    BY Zenon DEF EarliestFirst
  <2>1. PICK sub, L, pos : Balanced(tree, sub, L, pos, tree.key) /\ KeysSorted(L, pos, tree.key)
    BY DEF TimersInv
  <2>2. Kept(tree, sub, L, pos, tree.key)
    BY <2>1 DEF Balanced
  <2>3. Linked(tree) = L
    BY <2>2, LinkedAre
  <2>4. tree.root \in L /\ IsFiniteSet(L)
    <3>1. Shaped(tree, sub) /\ L = sub[tree.root] /\ tree.root \in Nodes /\ tree.root \in Ptrs
      BY <2>2, CellsAre, TreeFields DEF Kept, Shaped
    <3>2. tree.root \in sub[tree.root]
      BY <3>1, SidesAre, NodeIs
    <3>3. IsFiniteSet(sub[tree.root])
      BY <3>1, SubFinite DEF Shaped
    <3> QED
      BY <3>1, <3>2, <3>3
  <2>5. PICK k \in Nat : Cardinality(L) = k + 1
    <3>1. Cardinality(L) \in Nat /\ Cardinality(L) # 0
      BY <2>4, FS_CardinalityType, FS_EmptySet
    <3>2. Cardinality(L) - 1 \in Nat /\ Cardinality(L) = (Cardinality(L) - 1) + 1
      BY <3>1
    <3> QED
      BY <3>2
  <2>6. PICK w : w = Walk(tree)
    OBVIOUS
  <2>7. PICK f : f = [i \in 0..k |-> w[i + 1]]
    OBVIOUS
  <2>8. Visits(tree, L, pos, f, k)
    <3>1. Visits(tree, L, pos, [i \in 0..k |-> Walk(tree)[i + 1]], k)
      BY <2>2, <2>4, <2>5, WalkIs
    <3> QED
      BY <2>6, <2>7, <3>1
  <2>9. {w[i] : i \in 1..(k + 1)} = L
    <3>1. {f[i] : i \in 0..k} = L
      BY <2>8 DEF Visits
    <3>2. \A i \in 0..k : f[i] = w[i + 1] /\ i + 1 \in 1..(k + 1)
      BY <2>7
    <3>3. \A i \in 1..(k + 1) : i - 1 \in 0..k /\ w[i] = f[i - 1]
      <4> SUFFICES ASSUME NEW i \in 1..(k + 1) PROVE i - 1 \in 0..k /\ w[i] = f[i - 1]
        OBVIOUS
      <4>1. i - 1 \in 0..k /\ (i - 1) + 1 = i
        OBVIOUS
      <4> QED
        BY <3>2, <4>1
    <3> QED
      BY <3>1, <3>2, <3>3
  <2>10. Successor(tree, w[k + 1]) = Null
    <3>1. Successor(tree, f[k]) = Null
      BY <2>8 DEF Visits
    <3>2. f[k] = w[k + 1]
      BY <2>7
    <3> QED
      BY <3>1, <3>2
  <2>11. ASSUME NEW i \in 1..(k + 1) - 1 PROVE tree.key[w[i]] <= tree.key[w[i + 1]]
    <3>1. i - 1 \in 0..k /\ i - 1 # k /\ i \in 0..k /\ (i - 1) + 1 = i
      OBVIOUS
    <3>2. f[i - 1] = w[i] /\ f[i] = w[i + 1]
      BY <2>7, <3>1
    <3>3. f[i - 1] \in L /\ f[i] \in L /\ pos[f[i - 1]] < pos[f[i]]
      BY <2>8, <3>1 DEF Visits
    <3>4. tree.key[f[i - 1]] <= tree.key[f[i]]
      BY <2>1, <3>3 DEF KeysSorted
    <3> QED
      BY <3>2, <3>4
  <2> QED
    BY <2>3, <2>5, <2>6, <2>9, <2>10, <2>11
<1> QED
  BY <1>1, TimersInvariant, PTL

=============================================================================
