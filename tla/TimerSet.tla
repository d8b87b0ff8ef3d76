------------------------------ MODULE TimerSet ------------------------------
(***************************************************************************)
(* What a timer_manager promises: a set of pending timers, each with the   *)
(* time it is due.  A timer is pending from add() to del(), under the due  *)
(* time it was given, whatever else is added and deleted; handling a       *)
(* pending timer ends no earlier than it is due.                           *)
(***************************************************************************)
EXTENDS Integers

CONSTANTS Timer, Delay

VARIABLES pending, now

TimerSetInit == pending = {} /\ now = 0

AddPending ==
    \E t \in Timer, d \in Delay :
        /\ \A p \in pending : p.timer # t
        /\ pending' = pending \cup {[timer |-> t, due |-> now + d]}
        /\ UNCHANGED now

DropPending == \E p \in pending : pending' = pending \ {p} /\ UNCHANGED now

Wait ==
    /\ now' >= now
    /\ now' > now + 1 => \E p \in pending : p.due = now'
    /\ UNCHANGED pending

TimerSetSpec == TimerSetInit /\ [][AddPending \/ DropPending \/ Wait]_<<pending, now>>
=============================================================================
