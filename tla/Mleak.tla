------------------------------- MODULE Mleak -------------------------------
(***************************************************************************)
(* The leak tracer of lsylar/include/mleak.h: malloc and free are replaced *)
(* by hooks that keep one file for each block that is not freed, named by  *)
(* its address.  Several threads, and an allocator that gives an address   *)
(* again as soon as it is free.  The log directory is empty at first and   *)
(* files can always be made in it; write() on one that cannot is left out. *)
(***************************************************************************)
EXTENDS FiniteSets

CONSTANTS
    Tracers,        \* threads
    Addresses,      \* what malloc can return
    NoBlock         \* nullptr

VARIABLES
    live,           \* blocks that are not freed
    listed,         \* blocks with a file in the log directory
    hook,           \* each thread: the hook it is in, and the block
    overtaken       \* history: live blocks given again before the last file was removed

leakVars == <<live, listed, hook, overtaken>>

Outside == [at |-> "outside", ptr |-> NoBlock]

LeakInit ==
    live = {} /\ listed = {} /\ overtaken = {} /\ hook = [t \in Tracers |-> Outside]

\* malloc_hook, which does nothing more when memory is short.
MallocHook(t) ==
    /\ hook[t] = Outside
    /\ \E p \in Addresses \ live :
        /\ live' = live \cup {p}
        /\ hook' = [hook EXCEPT ![t] = [at |-> "+", ptr |-> p]]
        /\ overtaken' = IF \E o \in Tracers : hook[o] = [at |-> "-", ptr |-> p]
                        THEN overtaken \cup {p} ELSE overtaken
    /\ UNCHANGED listed

\* free_hook: the block goes before its file does.
FreeHook(t) ==
    /\ hook[t] = Outside
    /\ \E p \in live :
        /\ ~\E o \in Tracers : hook[o] = [at |-> "+", ptr |-> p]    \* its owner has it by now
        /\ live' = live \ {p}
        /\ hook' = [hook EXCEPT ![t] = [at |-> "-", ptr |-> p]]
        /\ overtaken' = overtaken \ {p}
    /\ UNCHANGED listed

\* Entry::reopen with mode "w", and a write: the file is made, or emptied and
\* written again.
Recorded(p) == listed \cup {p}

\* Mutant: write_check_log opens the file for a free as well.
WriteCheckLogAlways(t) ==
    /\ hook[t] # Outside
    /\ listed' = Recorded(hook[t].ptr)
    /\ hook' = [hook EXCEPT ![t] = Outside]
    /\ UNCHANGED <<live, overtaken>>

\* write_check_log: removing a file that is not there is an error that is logged.
WriteCheckLog(t) ==
    /\ hook[t] # Outside
    /\ listed' = IF hook[t].at = "+" THEN Recorded(hook[t].ptr) ELSE listed \ {hook[t].ptr}
    /\ hook' = [hook EXCEPT ![t] = Outside]
    /\ UNCHANGED <<live, overtaken>>

LeakNext == \E t \in Tracers : MallocHook(t) \/ FreeHook(t) \/ WriteCheckLog(t)

LeakSpec == LeakInit /\ [][LeakNext]_leakVars

-----------------------------------------------------------------------------
\* What the files say of a block that no hook is busy with: none is listed that
\* was freed, and a block that was not is listed, unless it got its address
\* from a free whose hook had not removed the file yet: such a leak is missed.
LeaksListed ==
    \A p \in Addresses : (\A t \in Tracers : hook[t].ptr # p) =>
        /\ p \in listed => p \in live
        /\ p \in live => p \in listed \cup overtaken
=============================================================================
