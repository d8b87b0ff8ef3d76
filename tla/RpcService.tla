----------------------------- MODULE RpcService -----------------------------
(***************************************************************************)
(* What ServerRpcApi promises the clients that use it one call at a time:  *)
(* each call is answered once, on the connection it came from, and no      *)
(* connection hears anything it has not asked for.                         *)
(***************************************************************************)
EXTENDS Integers

CONSTANTS
    Callers,    \* the clients
    MaxCalls    \* bound: calls of one client

VARIABLES
    calls,      \* calls each client has made
    answers     \* answers written to its connection

vars == <<calls, answers>>

Init ==
    /\ calls = [c \in Callers |-> 0]
    /\ answers = [c \in Callers |-> 0]

Call(c) ==
    /\ calls[c] = answers[c] /\ calls[c] < MaxCalls
    /\ calls' = [calls EXCEPT ![c] = @ + 1]
    /\ UNCHANGED answers

Answer(c) ==
    /\ answers[c] < calls[c]
    /\ answers' = [answers EXCEPT ![c] = @ + 1]
    /\ UNCHANGED calls

Next == \E c \in Callers : Call(c) \/ Answer(c)

Spec == Init /\ [][Next]_vars /\ \A c \in Callers : WF_vars(Answer(c))
=============================================================================
