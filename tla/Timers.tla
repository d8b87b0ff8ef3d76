------------------------------- MODULE Timers -------------------------------
(***************************************************************************)
(* The timers of lsylar/src/timer.c on the red-black tree: a timer_manager *)
(* and the one thread that uses it, as test_timer_func.c does.             *)
(*                                                                         *)
(* create_timer as it stands does not compile (line 9 declares node and    *)
(* gives it no value): node is read as &ans->rbtree, which is what line 48 *)
(* and the casts of timer.c need.  A timer that is freed may come back     *)
(* from malloc as another timer.                                           *)
(***************************************************************************)
EXTENDS RbTree, FiniteSetsExt

CONSTANTS
    Delays,     \* what add_timer is asked to wait, in milliseconds
    MaxClock    \* bound: time from which the clock stands still

ASSUME TimersAssumption == Delays \subseteq Nat /\ MaxClock \in Nat

VARIABLES
    tree,       \* timer_manager.tree
    clock,      \* cur_time_ms()
    inRange     \* history: no two keys in the tree were Half apart or more

timerVars == <<tree, clock, inRange>>

\* The nodes below a cell, and it.
Under(t) ==
    LET under[n \in Cells \cup {Null}] ==
            IF n \notin Nodes THEN {}
            ELSE {n} \cup under[t.kid["left"][n]] \cup under[t.kid["right"][n]]
    IN  under

Linked(t) == Under(t)[t.root]
Close(t) == \A m, n \in Linked(t) : t.key[m] - t.key[n] < Half

\* init_timer_manager
TimersInit == tree = EmptyTree /\ clock = 0 /\ inRange = TRUE

\* Mutant: the key is the delay alone.
AddTimerRelative ==
    \E n \in Nodes \ Linked(tree), d \in Delays :
        /\ tree' = Insert(tree, n, d)
        /\ inRange' = (inRange /\ Close(tree'))
        /\ UNCHANGED clock

\* add_timer: create_timer and insert.
AddTimer ==
    \E n \in Nodes \ Linked(tree), d \in Delays :
        /\ tree' = Insert(tree, n, clock + d)
        /\ inRange' = (inRange /\ Close(tree'))
        /\ UNCHANGED clock

\* get_min; the sentinel when there is no timer.
MinTimer == Least(tree, tree.root)

\* handle_timer(get_min()): the thread looks at the clock until the timer is
\* due, then calls it.
HandleTimer ==
    /\ MinTimer # Sentinel
    /\ clock' = Max({clock, tree.key[MinTimer]})
    /\ UNCHANGED <<tree, inRange>>

\* del_timer, handled or not; it turns back from the sentinel.  The node is
\* freed: its colour is not read again.
DelTimer ==
    \E n \in Linked(tree) :
        /\ tree' = Paint(Delete(tree, n), n, FALSE)
        /\ UNCHANGED <<clock, inRange>>

ClockTicks ==
    /\ clock' = clock + 1
    /\ UNCHANGED <<tree, inRange>>

TimersNext ==
    \/ AddTimer \/ DelTimer
    \/ clock < MaxClock /\ (HandleTimer \/ ClockTicks)

TimersSpec == TimersInit /\ [][TimersNext]_timerVars

-----------------------------------------------------------------------------
\* The numbers of black nodes on the paths from a cell down to the leaves.
BlackHeights(t) ==
    LET heights[n \in Cells \cup {Null}] ==
            IF n \notin Nodes THEN {0}
            ELSE {h + (IF t.red[n] THEN 0 ELSE 1) :
                      h \in heights[t.kid["left"][n]] \cup heights[t.kid["right"][n]]}
    IN  heights

\* After any sequence of insertions and deletions the tree is balanced and can
\* be walked: the root and the sentinel are black, no red node has a red
\* child, all paths have as many black nodes, and every node but the root
\* points at its parent.  (The root's parent pointer may be stale.)
TreeBalanced ==
    /\ ~tree.red[tree.root] /\ ~tree.red[Sentinel]
    /\ Cardinality(BlackHeights(tree)[tree.root]) = 1
    /\ \A n \in Linked(tree), s \in Sides :
        LET c == tree.kid[s][n]
        IN  c # Sentinel => tree.parent[c] = n /\ ~(tree.red[n] /\ tree.red[c])

\* A walk with ngx_rbtree_next, as many steps as there are timers.
Walk(t) ==
    LET walk[i \in 1..Cardinality(Linked(t))] ==
            IF i = 1 THEN Least(t, t.root) ELSE Successor(t, walk[i - 1])
    IN  walk

\* While all keys are less than half the 32-bit range apart, get_min returns a
\* timer that no other is due before, and ngx_rbtree_next goes on from it
\* through all the others by due time, although keys are compared through a
\* narrowed difference.
EarliestFirst ==
    inRange /\ tree.root # Sentinel =>
        LET walk == Walk(tree)
            last == Cardinality(Linked(tree))
        IN  /\ {walk[i] : i \in 1..last} = Linked(tree)
            /\ Successor(tree, walk[last]) = Null
            /\ \A i \in 1..last - 1 : tree.key[walk[i]] <= tree.key[walk[i + 1]]

Pending == {[timer |-> n, due |-> tree.key[n]] : n \in Linked(tree)}

Promise == INSTANCE TimerSet
    WITH Timer <- Nodes, Delay <- Delays, pending <- Pending, now <- clock

\* The tree implements the set of pending timers: no insertion, rotation or
\* deletion loses a timer, keeps a deleted one or moves its due time, however
\* far apart the keys are.
ImplementsTimerSet == Promise!TimerSetSpec
=============================================================================
