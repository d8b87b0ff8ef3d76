------------------------------- MODULE RbTree -------------------------------
(***************************************************************************)
(* The red-black tree of lsylar/src/ngx_rbtree.c and ngx_rbtree.h.         *)
(*                                                                         *)
(* A tree is a record: its root and, for every node and the sentinel, the  *)
(* fields of ngx_rbtree_node_t; kid is left and right in one.  The C code  *)
(* writes every case twice, once per side: here the side is a parameter,   *)
(* and the two rotations are Rotate(_, "left", _) and Rotate(_, "right",   *)
(* _).  What the code stores through a pointer is an EXCEPT, in the order  *)
(* of the code.                                                            *)
(*                                                                         *)
(* A loop of the code is one round as an operator, which leaves what the   *)
(* loop is done with alone, and a function of the number of rounds.  No    *)
(* loop comes by a node twice: as many rounds as there are nodes will do.  *)
(***************************************************************************)
EXTENDS Integers, FiniteSets

CONSTANTS
    Nodes,      \* the nodes a program may link
    Sentinel,   \* the leaf of every branch
    Null,       \* the null pointer
    Half        \* half the numbers of ngx_rbtree_key_int_t (2^31 in the program)

ASSUME RbTreeAssumption ==
    /\ Sentinel \notin Nodes /\ Null \notin Nodes \cup {Sentinel}
    /\ IsFiniteSet(Nodes)
    /\ Half \in Nat \ {0}

Sides == {"left", "right"}
Other(side) == IF side = "left" THEN "right" ELSE "left"
Cells == Nodes \cup {Sentinel}
Rounds == Cardinality(Nodes)

\* ngx_rbtree_init, on a sentinel that init_timer_manager linked to itself.
EmptyTree ==
    [root |-> Sentinel,
     kid |-> [s \in Sides |-> [n \in Cells |-> IF n = Sentinel THEN Sentinel ELSE Null]],
     parent |-> [n \in Cells |-> Null],
     red |-> [n \in Cells |-> FALSE],
     key |-> [n \in Cells |-> 0]]

\* The fields of a node are stored one at a time.
SetKid(t, side, n, c) == [t EXCEPT !.kid[side][n] = c]
SetParent(t, n, p) == [t EXCEPT !.parent[n] = p]
SetKey(t, n, key) == [t EXCEPT !.key[n] = key]
Paint(t, n, colour) == [t EXCEPT !.red[n] = colour]
SideOf(t, n) == IF n = t.kid["left"][t.parent[n]] THEN "left" ELSE "right"
Sibling(t, n) == t.kid[Other(SideOf(t, n))][t.parent[n]]

\* What hung at old, or the root, is now new.
Replace(t, old, new) ==
    IF old = t.root THEN [t EXCEPT !.root = new]
    ELSE SetKid(t, SideOf(t, old), t.parent[old], new)

\* The child of n on side, if there is one, has n for its parent.
Adopt(t, n, side) ==
    IF t.kid[side][n] = Sentinel THEN t ELSE SetParent(t, t.kid[side][n], n)

\* Mutant: the subtree that changes sides keeps its old parent.
RotateOrphan(t, side, n) ==
    LET up == t.kid[Other(side)][n]
        t1 == SetKid(t, Other(side), n, t.kid[side][up])
        t2 == SetParent(Replace(t1, n, up), up, t.parent[n])
    IN  SetParent(SetKid(t2, side, up, n), n, up)

\* n goes down on side, its child on the other side takes its place.
Rotate(t, side, n) ==
    LET up == t.kid[Other(side)][n]
        inner == t.kid[side][up]
        t1 == Adopt(SetKid(t, Other(side), n, inner), n, Other(side))
        t2 == SetParent(Replace(t1, n, up), up, t.parent[n])
    IN  SetParent(SetKid(t2, side, up, n), n, up)

-----------------------------------------------------------------------------
\* The difference of two keys as a signed number of ngx_rbtree_key_int_t.
Narrow(d) ==
    LET m == d % (2 * Half)
    IN  IF m >= Half THEN m - 2 * Half ELSE m

\* Mutant: one bit more of the difference is lost.
TimerBeforeNarrow(a, b) == 2 * ((a - b) % Half) >= Half

\* The comparison of ngx_rbtree_insert_timer_value.
TimerBefore(a, b) == Narrow(a - b) < 0

\* The side of temp that node n goes to.
Turn(t, n, temp) == IF TimerBefore(t.key[n], t.key[temp]) THEN "left" ELSE "right"

\* One round of the loop there: down, unless there is a free leaf.
Down(t, n, temp) ==
    LET next == t.kid[Turn(t, n, temp)][temp]
    IN  IF next = Sentinel THEN temp ELSE next

\* The node that n goes below.
Spot(t, n) ==
    LET temp[i \in 0..Rounds] == IF i = 0 THEN t.root ELSE Down(t, n, temp[i - 1])
    IN  temp[Rounds]

\* Node n goes to the free leaf there, red.
Place(t, n) ==
    LET temp == Spot(t, n)
        t1 == SetParent(SetKid(t, Turn(t, n, temp), temp, n), n, temp)
    IN  Paint(SetKid(SetKid(t1, "left", n, Sentinel), "right", n, Sentinel), n, TRUE)

\* One round of the loop of ngx_rbtree_insert: the red node x.at below a red parent.
InsertRound(x) ==
    LET t == x.tree
        n == x.at
        p == t.parent[n]
        g == t.parent[p]
        side == SideOf(t, p)
        uncle == t.kid[Other(side)][g]
    IN  IF n = t.root \/ ~t.red[p] THEN x
        ELSE IF t.red[uncle]
        THEN [tree |-> Paint(Paint(Paint(t, p, FALSE), uncle, FALSE), g, TRUE), at |-> g]
        ELSE LET inner == n = t.kid[Other(side)][p]
                 t1 == IF inner THEN Rotate(t, side, p) ELSE t
                 low == IF inner THEN p ELSE n
                 mid == t1.parent[low]
                 top == t1.parent[mid]
             IN  [tree |-> Rotate(Paint(Paint(t1, mid, FALSE), top, TRUE), Other(side), top),
                  at |-> low]

InsertFixup(t, n) ==
    LET x[i \in 0..Rounds] == IF i = 0 THEN [tree |-> t, at |-> n] ELSE InsertRound(x[i - 1])
    IN  Paint(x[Rounds].tree, x[Rounds].tree.root, FALSE)

\* ngx_rbtree_insert of node n, whose key the caller has set.
Insert(t, n, key) ==
    LET t1 == SetKey(t, n, key)
        t2 == SetKid(SetKid(SetParent(t1, n, Null), "left", n, Sentinel), "right", n, Sentinel)
    IN  IF t.root = Sentinel THEN Replace(Paint(t2, n, FALSE), Sentinel, n)
        ELSE InsertFixup(Place(t1, n), n)

-----------------------------------------------------------------------------
\* One round of ngx_rbtree_min.
DownLeft(t, n) == IF t.kid["left"][n] = Sentinel THEN n ELSE t.kid["left"][n]

\* ngx_rbtree_min
Least(t, n) ==
    LET low[i \in 0..Rounds] == IF i = 0 THEN n ELSE DownLeft(t, low[i - 1])
    IN  low[Rounds]

\* A red sibling of n takes the place of their parent: the next sibling is black.
TurnSibling(t, n) ==
    LET p == t.parent[n]
        w == Sibling(t, n)
    IN  IF t.red[w] THEN Rotate(Paint(Paint(t, w, FALSE), p, TRUE), SideOf(t, n), p) ELSE t

\* The child of w that is not on side is red, or the one on side, which is, comes up.
TurnNephew(t, side, w) ==
    LET near == t.kid[side][w]
    IN  IF t.red[t.kid[Other(side)][w]] THEN t
        ELSE Rotate(Paint(Paint(t, near, FALSE), w, TRUE), Other(side), w)

\* p goes down on side, the other child takes its place and its colour.
TurnParent(t, side, p) ==
    LET w == t.kid[Other(side)][p]
        t1 == Paint(Paint(t, w, t.red[p]), p, FALSE)
    IN  Rotate(Paint(t1, t1.kid[Other(side)][w], FALSE), side, p)

\* One round of the loop at the end of ngx_rbtree_delete: the paths through
\* x.at lack a black node.
DeleteRound(x) ==
    LET n == x.at
        p == x.tree.parent[n]
        side == SideOf(x.tree, n)
        t == TurnSibling(x.tree, n)
        w == t.kid[Other(side)][p]
        done == TurnParent(TurnNephew(t, side, w), side, p)
    IN  IF n = x.tree.root \/ x.tree.red[n] THEN x
        ELSE IF \A s \in Sides : ~t.red[t.kid[s][w]] THEN [tree |-> Paint(t, w, TRUE), at |-> p]
        ELSE [tree |-> done, at |-> done.root]

DeleteFixup(t, n) ==
    LET x[i \in 0..Rounds] == IF i = 0 THEN [tree |-> t, at |-> n] ELSE DeleteRound(x[i - 1])
    IN  Paint(x[Rounds].tree, x[Rounds].at, FALSE)

\* The removed node's fields are cleared ("DEBUG stuff").
Clear(t, n) ==
    SetKey(SetParent(SetKid(SetKid(t, "left", n, Null), "right", n, Null), n, Null), n, 0)

\* subst takes the place and the colour of n, which has two children.
Transplant(t, n, subst) ==
    LET t1 == SetKid(SetKid(t, "left", subst, t.kid["left"][n]), "right", subst, t.kid["right"][n])
        t2 == Paint(SetParent(t1, subst, t.parent[n]), subst, t.red[n])
        t3 == Replace(t2, n, subst)
    IN  Adopt(Adopt(t3, subst, "left"), subst, "right")

\* ngx_rbtree_delete
Delete(t, n) ==
    LET two == \A s \in Sides : t.kid[s][n] # Sentinel
        subst == IF two THEN Least(t, t.kid["right"][n]) ELSE n
        temp == IF t.kid["left"][subst] = Sentinel
                THEN t.kid["right"][subst] ELSE t.kid["left"][subst]
        t1 == Replace(t, subst, temp)
        t2 == SetParent(t1, temp, IF two /\ t.parent[subst] = n THEN subst ELSE t.parent[subst])
        t3 == Clear(IF two THEN Transplant(t2, n, subst) ELSE t2, n)
    IN  IF subst = t.root THEN Clear(Paint(t1, temp, FALSE), n)
        ELSE IF t.red[subst] THEN t3 ELSE DeleteFixup(t3, temp)

\* One round of the loop of ngx_rbtree_next: up, unless n is the root or on the left.
Up(t, n) == IF n = t.root \/ n = t.kid["left"][t.parent[n]] THEN n ELSE t.parent[n]

\* The first ancestor that n is on the left of, if any.
Climb(t, n) ==
    LET top[i \in 0..Rounds] == IF i = 0 THEN n ELSE Up(t, top[i - 1])
    IN  IF top[Rounds] = t.root THEN Null ELSE t.parent[top[Rounds]]

\* ngx_rbtree_next
Successor(t, n) ==
    IF t.kid["right"][n] # Sentinel THEN Least(t, t.kid["right"][n]) ELSE Climb(t, n)
=============================================================================
