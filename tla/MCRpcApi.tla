------------------------------ MODULE MCRpcApi ------------------------------
(* Instances of RpcApi for TLC. *)
EXTENDS RpcApi, TLC

MCSymmetry == Permutations(Clients)

\* Bound of the run of rude clients: two requests in all; or MaxRequests of a
\* client that is alone, which is what it takes to pile answers up in sbuffer and
\* to meet the result of a send that failed.  It stays, or leaves answers unread,
\* and nothing is lost.
Present == {c \in Clients : cl[c] # "new"}
RudeBound ==
    \/ MapThenSumSet(LAMBDA c : sent[c], Clients) <= 2
    \/ /\ Cardinality(Present) = 1
       /\ \A c \in Present : cl[c] \in {"open", "gone"} /\ (cl[c] = "gone" => Unread(c) > 0)
       /\ \A r \in DOMAIN reqs : reqs[r].st # "lost"

\* Nothing tells one descriptor from another: the first that is used is 1.
FirstIsOne ==
    /\ Present = {} => lfd = 1
    /\ fdConn[2] # NoConn => fdConn[1] # NoConn \/ \E c \in Clients : Finished(c)

RudeInit == Init /\ FirstIsOne

RudeSpec == RudeInit /\ [][Next /\ RudeBound' /\ FirstIsOne']_vars
=============================================================================
