------------------------------ MODULE MCTimers ------------------------------
(* Instances of Timers for TLC. *)
EXTENDS Timers

RECURSIVE Shape(_, _)
Shape(t, n) ==
    IF n = Sentinel THEN <<>>
    ELSE <<t.key[n], t.red[n], Shape(t, t.kid["left"][n]), Shape(t, t.kid["right"][n])>>

\* Which node is where does not matter, and neither does what a freed node or
\* the root's parent pointer still holds: states of one shape are one state.
MCView == <<Shape(tree, tree.root), clock, inRange>>
=============================================================================
