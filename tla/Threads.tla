------------------------------ MODULE Threads ------------------------------
(***************************************************************************)
(* Thread of lsylar/src/Thread.cc: an object whose constructor starts a    *)
(* POSIX thread, and whose destructor waits for the callback that thread   *)
(* runs.  The object and its thread meet twice on one semaphore: the       *)
(* constructor takes the first post, the destructor the second.            *)
(*                                                                         *)
(* Each object has one owner, which constructs it, may join it (once: join *)
(* clears m_thread) and destroys it.  Objects share nothing.               *)
(***************************************************************************)
EXTENDS Naturals

CONSTANTS
    Threads,        \* the Thread objects, each standing for the thread it starts
    NoId            \* what m_id holds before run() stores the thread's own id

ASSUME NoIdAssumption == NoId \notin Threads

VARIABLES
    owner,          \* how far the owner of the object is
    body,           \* how far Thread::run is, in the thread itself
    sem,            \* m_sem
    mId,            \* m_id; a thread's id stands for the thread
    joinable        \* m_thread # 0

threadVars == <<owner, body, sem, mId, joinable>>

ThreadTypeOK ==
    /\ owner \in [Threads -> {"absent", "constructing", "built", "joining",
                              "destroying", "gone"}]
    /\ body \in [Threads -> {"none", "started", "named", "running", "done",
                             "ending", "returned"}]
    /\ sem \in [Threads -> 0..2]
    /\ mId \in [Threads -> Threads \cup {NoId}]
    /\ joinable \in [Threads -> BOOLEAN]

ThreadInit ==
    /\ owner = [t \in Threads |-> "absent"]
    /\ body = [t \in Threads |-> "none"]
    /\ sem = [t \in Threads |-> 0]
    /\ mId = [t \in Threads |-> NoId]
    /\ joinable = [t \in Threads |-> FALSE]

-----------------------------------------------------------------------------
(* The owner. *)

OwnerMoves(t, from, to) == owner[t] = from /\ owner' = [owner EXCEPT ![t] = to]

\* Thread::Thread up to the wait: pthread_create starts the thread ...
Construct(t) ==
    /\ OwnerMoves(t, "absent", "constructing")
    /\ body' = [body EXCEPT ![t] = "started"]
    /\ joinable' = [joinable EXCEPT ![t] = TRUE]
    /\ UNCHANGED <<sem, mId>>

\* ... or fails, which is only looked at once the wait is over.
ConstructFails(t) ==
    /\ OwnerMoves(t, "absent", "constructing")
    /\ UNCHANGED <<body, sem, mId, joinable>>

\* Mutant: the constructor leaves the first post for the destructor to take.
ConstructReturnsAtOnce(t) ==
    /\ OwnerMoves(t, "constructing", "built")
    /\ UNCHANGED <<body, sem, mId, joinable>>

\* m_sem.wait() at the end of the constructor.
ConstructReturns(t) ==
    /\ OwnerMoves(t, "constructing", "built")
    /\ sem[t] > 0
    /\ sem' = [sem EXCEPT ![t] = @ - 1]
    /\ UNCHANGED <<body, mId, joinable>>

\* join() blocks in pthread_join until run() has returned; a second join()
\* finds m_thread = 0 and does nothing.
Join(t) ==
    /\ OwnerMoves(t, "built", "joining")
    /\ joinable[t]
    /\ UNCHANGED <<body, sem, mId, joinable>>

JoinReturns(t) ==
    /\ OwnerMoves(t, "joining", "built")
    /\ body[t] = "returned"
    /\ joinable' = [joinable EXCEPT ![t] = FALSE]
    /\ UNCHANGED <<body, sem, mId>>

\* ~Thread waits on the semaphore, and does not join.
Destroy(t) ==
    /\ OwnerMoves(t, "built", "destroying")
    /\ UNCHANGED <<body, sem, mId, joinable>>

\* Mutant: the destructor does not wait.
DestroyReturnsAtOnce(t) ==
    /\ OwnerMoves(t, "destroying", "gone")
    /\ UNCHANGED <<body, sem, mId, joinable>>

DestroyReturns(t) ==
    /\ OwnerMoves(t, "destroying", "gone")
    /\ sem[t] > 0
    /\ sem' = [sem EXCEPT ![t] = @ - 1]
    /\ UNCHANGED <<body, mId, joinable>>

-----------------------------------------------------------------------------
(* Thread::run, in the thread. *)

BodyMoves(t, from, to) == body[t] = from /\ body' = [body EXCEPT ![t] = to]

\* t_thread, t_thread_name and m_id are set, the callback is taken out of the object.
BodyEnter(t) ==
    /\ BodyMoves(t, "started", "named")
    /\ mId' = [mId EXCEPT ![t] = t]
    /\ UNCHANGED <<owner, sem, joinable>>

\* m_sem.post() before, and after, the callback.
Post(t, from, to) ==
    /\ BodyMoves(t, from, to)
    /\ sem' = [sem EXCEPT ![t] = @ + 1]
    /\ UNCHANGED <<owner, mId, joinable>>

\* Mutants: the first post comes before the id is stored; the second is forgotten.
PostStartedEarly(t) == Post(t, "started", "running")
PostFinishedForgotten(t) ==
    /\ BodyMoves(t, "done", "ending")
    /\ UNCHANGED <<owner, sem, mId, joinable>>

PostStarted(t) == Post(t, "named", "running")

CallbackReturns(t) ==
    /\ BodyMoves(t, "running", "done")
    /\ UNCHANGED <<owner, sem, mId, joinable>>

PostFinished(t) == Post(t, "done", "ending")

BodyReturns(t) ==
    /\ BodyMoves(t, "ending", "returned")
    /\ UNCHANGED <<owner, sem, mId, joinable>>

-----------------------------------------------------------------------------
OwnerStep(t) ==
    \/ Construct(t) \/ ConstructFails(t) \/ ConstructReturns(t)
    \/ Join(t) \/ JoinReturns(t) \/ Destroy(t) \/ DestroyReturns(t)

\* What the thread does around its callback, and the callback's return.
Handshake(t) == BodyEnter(t) \/ PostStarted(t) \/ PostFinished(t) \/ BodyReturns(t)
BodyStep(t) == Handshake(t) \/ CallbackReturns(t)

ThreadNext == \E t \in Threads : OwnerStep(t) \/ BodyStep(t)

ThreadSpec == ThreadInit /\ [][ThreadNext]_threadVars

\* Both threads run on, and every callback returns; nobody has to join or destroy.
ThreadFairness ==
    \A t \in Threads :
        /\ WF_threadVars(BodyStep(t))
        /\ WF_threadVars(ConstructReturns(t) \/ JoinReturns(t) \/ DestroyReturns(t))

FairThreadSpec == ThreadSpec /\ ThreadFairness

-----------------------------------------------------------------------------
\* Whoever holds a constructed Thread reads its real id, and finds the callback
\* taken over: the constructor cannot return on the destructor's post.
BuiltHasId ==
    \A t \in Threads :
        owner[t] \notin {"absent", "constructing"} =>
            mId[t] = t /\ body[t] \notin {"none", "started", "named"}

\* The destructor's comment: an object is not destroyed before its function
\* has finished (Thread.cc, line 55), whether it was joined first or not.
GoneAfterCallback ==
    \A t \in Threads : owner[t] = "gone" => body[t] \in {"ending", "returned"}

\* The thread does not write into an object that is gone.
NoWriteAfterDestroy ==
    [][\A t \in Threads :
        owner[t] = "gone" => sem'[t] = sem[t] /\ mId'[t] = mId[t]]_threadVars

\* Constructors, joins and destructors return, unless the thread was never made.
OwnerReturns ==
    \A t \in Threads :
        (owner[t] \in {"constructing", "joining", "destroying"} /\ body[t] # "none")
            ~> owner[t] \in {"built", "gone"}

=============================================================================
