----------------------------- MODULE MCReactor -----------------------------
(* Instances of Reactor for TLC. *)
EXTENDS Reactor, TLC

MCSymmetry == Permutations(Clients)

\* Symmetry of the names for the run of the liveness properties, where TLC's own
\* is not sound: whichever client comes first is called the first one, and the
\* descriptor it is given is 1.  No step is kept from being taken under some name.
FirstClient == CHOOSE c \in Clients : TRUE
NamesInOrder ==
    /\ \A c \in Clients : cl[c] # "new" => cl[FirstClient] # "new"
    /\ \A fd \in Fds : fdConn[fd] # NoConn => fdConn[1] # NoConn \/ \E c \in Clients : Finished(c)

LiveSpec == Init /\ [][Next /\ NamesInOrder']_vars /\ Fairness
=============================================================================
