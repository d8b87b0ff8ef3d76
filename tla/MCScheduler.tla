---------------------------- MODULE MCScheduler -----------------------------
(* Instances of Scheduler for TLC. *)
EXTENDS Scheduler

\* Pool threads are alike; liveness is checked without symmetry.
MCSymmetry == Permutations(Threads)

\* Two pool threads; or one and the caller, who runs tasks in stop(); or the
\* caller alone.
MCPool == {[pool |-> Threads, useCaller |-> FALSE]}
MCPoolAndCaller == MCPool \cup {[pool |-> {t}, useCaller |-> TRUE] : t \in Threads}
MCPoolOrCaller == MCPool \cup {[pool |-> {}, useCaller |-> TRUE]}
=============================================================================
