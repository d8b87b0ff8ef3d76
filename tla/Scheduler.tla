----------------------------- MODULE Scheduler -----------------------------
(***************************************************************************)
(* The fiber scheduler of lsylar/src/scheduler.cc and Fiber.cc on the pool *)
(* threads of module Threads.  A pool thread's callback is                 *)
(* scheduler::run; with use_caller the thread that made the scheduler runs *)
(* it too, on a fiber of its own, once it calls stop().                    *)
(*                                                                         *)
(* m_mutex guards the queue m_fibers.  start() holds it while it makes the *)
(* threads (pthread_create succeeds here; see Threads for when it fails);  *)
(* every other critical section is one action.  The state of a fiber is    *)
(* read and written outside the mutex.                                     *)
(*                                                                         *)
(* A fiber's context ends with uc_link = nullptr: when its callback        *)
(* returns or throws, glibc exits the process (Fiber.cc, line 48).         *)
(* An idle run() enters a fiber whose callback is run() itself (line 129): *)
(* the new loop takes the place of the old one, which is never resumed,    *)
(* because swapin() saves the new context over the old one in              *)
(* t_thread_fiber.  A thread is thus always in exactly one loop, and       *)
(* m_idle_thread_count counts the loops left behind.                       *)
(***************************************************************************)
EXTENDS Threads, SequencesExt, FiniteSetsExt

CONSTANTS
    Caller,         \* the thread that makes, starts and stops the scheduler
    Setups,         \* what the scheduler may be made with, see below
    Fibers,         \* tasks scheduled as a Fiber::ptr
    Callbacks,      \* tasks scheduled as a std::function
    Resumed,        \* a fiber that runs may schedule itself, then yield
    AnyThread,            \* the pin -1
    MaxSchedules,   \* bound: entries queued for one fiber
    MaxCalls,       \* bound: entries queued for one callback
    MaxIdle         \* bound: idle loops left behind (memory, in the program)

ASSUME SchedulerAssumption ==
    /\ Caller \notin Threads /\ AnyThread \notin Threads \cup {Caller}
    /\ Setups \subseteq [pool : SUBSET Threads, useCaller : BOOLEAN]
    /\ \A s \in Setups : IsFiniteSet(s.pool)
    /\ Resumed \in BOOLEAN
    /\ Fibers \cap Callbacks = {}
    /\ NoId \notin Fibers \cup Callbacks
    /\ MaxSchedules \in Nat /\ MaxCalls \in Nat /\ MaxIdle \in Nat

Tasks == Fibers \cup Callbacks
MayRun == Threads \cup {Caller}
Bound(x) == IF x \in Fibers THEN MaxSchedules ELSE MaxCalls
NoEntry == [task |-> NoId, pin |-> AnyThread]   \* after FiberAndThread::reset

VARIABLES
    pool,           \* the threads start() makes, as many as the constructor was told
    useCaller,      \* use_caller: the caller is to run tasks too
    main,           \* the caller: how far it is in start() and stop()
    locked,         \* start() holds m_mutex
    threadIds,      \* m_thread_ids
    autoStop, stopping,     \* m_auto_stop, m_stopping
    queue,          \* m_fibers
    active,         \* m_active_thread_count
    idle,           \* m_idle_thread_count
    pc,             \* runner: where it is in run()
    hand,           \* runner: ft
    state,          \* Fiber::m_state of each fiber
    exited,         \* the process is gone
    scheduled, begun, refused   \* history: entries queued, entered, not entered

setup == <<pool, useCaller>>
mainVars == <<setup, main, locked, threadIds, autoStop, stopping>>
runVars == <<active, idle, pc, hand, state, exited, begun, refused>>
queueVars == <<queue, scheduled>>
vars == <<threadVars, mainVars, runVars, queueVars>>

Runners == pool \cup (IF useCaller THEN {Caller} ELSE {})
Pins == Runners \cup {AnyThread}

\* scheduler::scheduler: with use_caller the caller's id comes first.
Init ==
    /\ ThreadInit
    /\ \E s \in Setups : pool = s.pool /\ useCaller = s.useCaller
    /\ main = "new" /\ locked = FALSE
    /\ threadIds = IF useCaller THEN <<Caller>> ELSE <<>>
    /\ autoStop = FALSE /\ stopping = TRUE
    /\ queue = <<>> /\ active = 0 /\ idle = 0
    /\ pc = [r \in Runners |-> IF r = Caller THEN "out" ELSE "loop"]
    /\ hand = [r \in Runners |-> NoEntry]
    /\ state = [f \in Fibers |-> "INIT"]
    /\ exited = FALSE
    /\ scheduled = [x \in Tasks |-> 0]
    /\ begun = [x \in Tasks |-> 0]
    /\ refused = [x \in Tasks |-> 0]

Inside(r) == pc[r] \in {"inside", "swapout", "leave"}

\* Two threads on one fiber's stack: undefined from there on, the model stops.
Shared ==
    \E r, s \in Runners :
        /\ r # s /\ Inside(r) /\ Inside(s)
        /\ hand[r].task = hand[s].task /\ hand[r].task \in Fibers

Alive == ~exited /\ ~Shared

InRun(r) == Alive /\ r \in Runners /\ (r \in Threads => body[r] = "running")
Goes(r, from, to) == InRun(r) /\ pc[r] = from /\ pc' = [pc EXCEPT ![r] = to]
\* Round the loop again, ft is reset.
Rests(r, from) == Goes(r, from, "loop") /\ hand' = [hand EXCEPT ![r] = NoEntry]

-----------------------------------------------------------------------------
(* start() and stop(), in the caller. *)

MainAt(from) == Alive /\ main = from
MainMoves(from, to) == MainAt(from) /\ main' = to

StartBegin ==
    /\ MainMoves("new", "starting")
    /\ ~locked /\ stopping
    /\ locked' = TRUE /\ stopping' = FALSE
    /\ UNCHANGED <<setup, threadVars, threadIds, autoStop, runVars, queueVars>>

\* new Thread(run): one at a time, in the order of the pool.
StartThread ==
    /\ MainAt("starting")
    /\ \A t \in pool : owner[t] # "constructing"
    /\ \E t \in pool : Construct(t)
    /\ UNCHANGED <<mainVars, runVars, queueVars>>

\* The constructor returns and getId() is recorded.
StartRecord ==
    /\ MainAt("starting")
    /\ \E t \in pool : ConstructReturns(t) /\ threadIds' = Append(threadIds, mId[t])
    /\ UNCHANGED <<setup, main, locked, autoStop, stopping, runVars, queueVars>>

StartEnd ==
    /\ MainMoves("starting", "started")
    /\ \A t \in pool : owner[t] = "built"
    /\ locked' = FALSE
    /\ UNCHANGED <<setup, threadVars, threadIds, autoStop, stopping, runVars, queueVars>>

\* stopping(), under the lock.
Stoppable == autoStop /\ stopping /\ queue = <<>> /\ active = 0

\* A scheduler of one thread, the caller's, whose root fiber did not run yet,
\* may be done before anything else is looked at.
StopBegin ==
    /\ MainAt("started")
    /\ main' = IF useCaller /\ pool = {} THEN "stop" ELSE "mark"
    /\ autoStop' = TRUE
    /\ stopping' = (stopping \/ main' = "stop")
    /\ UNCHANGED <<setup, threadVars, locked, threadIds, runVars, queueVars>>

StopEarly ==
    /\ MainAt("stop") /\ ~locked
    /\ main' = IF Stoppable THEN "returned" ELSE "mark"
    /\ UNCHANGED <<setup, threadVars, locked, threadIds, autoStop, stopping, runVars, queueVars>>

\* m_stopping is set; without a root fiber the threads are joined next.
StopMark ==
    /\ MainAt("mark")
    /\ main' = IF useCaller THEN "test" ELSE "joining"
    /\ stopping' = TRUE
    /\ UNCHANGED <<setup, threadVars, locked, threadIds, autoStop, runVars, queueVars>>

\* The root fiber is called, unless there is nothing left to do; its loop has
\* no way out, and neither have the loops of the threads that are joined.
StopCall ==
    /\ MainAt("test") /\ ~locked
    /\ main' = IF Stoppable THEN "joining" ELSE "called"
    /\ pc' = [pc EXCEPT ![Caller] = IF Stoppable THEN @ ELSE "loop"]
    /\ UNCHANGED <<setup, threadVars, locked, threadIds, autoStop, stopping, queueVars,
                   active, idle, hand, state, exited, begun, refused>>

MainStep ==
    \/ StartBegin \/ StartThread \/ StartRecord \/ StartEnd
    \/ StopBegin \/ StopEarly \/ StopMark \/ StopCall

-----------------------------------------------------------------------------
(* schedule(), from any thread. *)

Enqueue(entries) ==
    /\ Alive /\ ~locked
    /\ queue' = queue \o entries
    /\ scheduled' = [x \in Tasks |->
                        scheduled[x] + Cardinality({i \in DOMAIN entries : entries[i].task = x})]

\* A fiber is scheduled once from outside; it may then do so itself.
MaySchedule(x) ==
    /\ scheduled[x] < Bound(x)
    /\ x \in Fibers =>
        \/ scheduled[x] = 0
        \/ Resumed /\ \E r \in Runners : pc[r] = "inside" /\ hand[r].task = x

\* schedule(task, thread): the caller knows a thread from inside a task or from
\* m_thread_ids.
Schedule ==
    \E x \in Tasks, p \in Pins :
        /\ MaySchedule(x) /\ (p \in Threads => mId[p] = p)
        /\ Enqueue(<<[task |-> x, pin |-> p]>>)
        /\ UNCHANGED <<threadVars, mainVars, runVars>>

\* schedule(begin, end): one critical section for the whole range.
ScheduleRange ==
    \E x, y \in Tasks :
        /\ x # y /\ MaySchedule(x) /\ MaySchedule(y)
        /\ Enqueue(<<[task |-> x, pin |-> AnyThread], [task |-> y, pin |-> AnyThread]>>)
        /\ UNCHANGED <<threadVars, mainVars, runVars>>

-----------------------------------------------------------------------------
(* run(), in a pool thread or on the caller's root fiber. *)

\* Entries the scan does not step over: for this thread, and not executing.
Eligible(r) ==
    {i \in DOMAIN queue :
        /\ queue[i].pin \in {AnyThread, r}
        /\ queue[i].task \in Fibers => state[queue[i].task] # "EXEC"}

\* Mutant: the entry at the head is erased, not the one taken.
TakeFirst(r) ==
    /\ Goes(r, "loop", "taken")
    /\ ~locked /\ Eligible(r) # {}
    /\ hand' = [hand EXCEPT ![r] = queue[Min(Eligible(r))]]
    /\ queue' = Tail(queue) /\ active' = active + 1
    /\ UNCHANGED <<threadVars, mainVars, scheduled, idle, state, exited, begun, refused>>

\* The scan: the first eligible entry leaves the queue.
Take(r) ==
    /\ Goes(r, "loop", "taken")
    /\ ~locked /\ Eligible(r) # {}
    /\ LET i == Min(Eligible(r))
       IN  /\ queue' = RemoveAt(queue, i)
           /\ hand' = [hand EXCEPT ![r] = queue[i]]
    /\ active' = active + 1
    /\ UNCHANGED <<threadVars, mainVars, scheduled, idle, state, exited, begun, refused>>

\* Nothing to take: the loop is left for that of a new idle fiber.
Idle(r) ==
    /\ Goes(r, "loop", "loop")
    /\ ~locked /\ Eligible(r) = {}
    /\ idle < MaxIdle /\ idle' = idle + 1
    /\ UNCHANGED <<threadVars, mainVars, queueVars, active, hand, state, exited, begun, refused>>

\* Mutant: a new fiber counts as ended.
EndedOrNew(f) == state[f] \in {"INIT", "TERM", "EXCEPT"}

Ended(f) == state[f] \in {"TERM", "EXCEPT"}

\* The entry is a callback: cb_fiber, which no other thread knows, runs it.
RunCallback(r) ==
    /\ Goes(r, "taken", "inside")
    /\ hand[r].task \in Callbacks
    /\ begun' = [begun EXCEPT ![hand[r].task] = @ + 1]
    /\ UNCHANGED <<threadVars, mainVars, queueVars, active, idle, hand, state, exited, refused>>

\* Mutant: the count is only taken back after a task that ran.
RefuseActive(r) ==
    /\ Rests(r, "taken")
    /\ hand[r].task \in Fibers /\ Ended(hand[r].task)
    /\ refused' = [refused EXCEPT ![hand[r].task] = @ + 1]
    /\ UNCHANGED <<threadVars, mainVars, queueVars, active, idle, state, exited, begun>>

\* The entry is a fiber that ended: nothing to run, the loop goes round.
Refuse(r) ==
    /\ Rests(r, "taken")
    /\ hand[r].task \in Fibers /\ Ended(hand[r].task)
    /\ active' = active - 1
    /\ refused' = [refused EXCEPT ![hand[r].task] = @ + 1]
    /\ UNCHANGED <<threadVars, mainVars, queueVars, idle, state, exited, begun>>

Accept(r) ==
    /\ Goes(r, "taken", "swapin")
    /\ hand[r].task \in Fibers /\ ~Ended(hand[r].task)
    /\ UNCHANGED <<threadVars, mainVars, queueVars, active, idle, hand, state, exited, begun, refused>>

\* Fiber::swapin reads the state, and turns back from a fiber in execution ...
SwapInBusy(r) ==
    /\ Goes(r, "swapin", "back")
    /\ state[hand[r].task] = "EXEC"
    /\ refused' = [refused EXCEPT ![hand[r].task] = @ + 1]
    /\ UNCHANGED <<threadVars, mainVars, queueVars, active, idle, hand, state, exited, begun>>

SwapIn(r) ==
    /\ Goes(r, "swapin", "enter")
    /\ state[hand[r].task] # "EXEC"
    /\ UNCHANGED <<threadVars, mainVars, queueVars, active, idle, hand, state, exited, begun, refused>>

\* ... or sets it and switches to the fiber's context.
Enter(r) ==
    /\ Goes(r, "enter", "inside")
    /\ state' = [state EXCEPT ![hand[r].task] = "EXEC"]
    /\ begun' = [begun EXCEPT ![hand[r].task] = @ + 1]
    /\ UNCHANGED <<threadVars, mainVars, queueVars, active, idle, hand, exited, refused>>

\* The user's function calls YeldToHold, YeldToReady or swapout.
Yield(r) ==
    /\ Goes(r, "inside", "swapout")
    /\ \/ hand[r].task \in Fibers
          /\ \E s \in {"HOLD", "READY"} : state' = [state EXCEPT ![hand[r].task] = s]
       \/ UNCHANGED state
    /\ UNCHANGED <<threadVars, mainVars, queueVars, active, idle, hand, exited, begun, refused>>

\* Fiber::swapout: the state is TERM whatever it was, ...
SwapOut(r) ==
    /\ Goes(r, "swapout", "leave")
    /\ state' = [f \in Fibers |-> IF f = hand[r].task THEN "TERM" ELSE state[f]]
    /\ UNCHANGED <<threadVars, mainVars, queueVars, active, idle, hand, exited, begun, refused>>

\* ... then the context is saved and the thread is back in run().
Leave(r) ==
    /\ Goes(r, "leave", "back")
    /\ UNCHANGED <<threadVars, mainVars, queueVars, active, idle, hand, state, exited, begun, refused>>

\* The user's function returns or throws.
Finish(r) ==
    /\ InRun(r) /\ pc[r] = "inside"
    /\ exited' = TRUE
    /\ UNCHANGED <<threadVars, mainVars, queueVars, active, idle, pc, hand, state, begun, refused>>

\* A callback's fiber is reset, what was left of the callback is dropped.
Back(r) ==
    /\ \/ Goes(r, "back", "settle") /\ hand[r].task \in Fibers /\ UNCHANGED hand
       \/ Rests(r, "back") /\ hand[r].task \in Callbacks
    /\ active' = active - 1
    /\ UNCHANGED <<threadVars, mainVars, queueVars, idle, state, exited, begun, refused>>

\* A fiber found READY is queued again, for any thread.
SettleReady(r) ==
    /\ Rests(r, "settle")
    /\ state[hand[r].task] = "READY" /\ scheduled[hand[r].task] < MaxSchedules
    /\ Enqueue(<<[task |-> hand[r].task, pin |-> AnyThread]>>)
    /\ UNCHANGED <<threadVars, mainVars, active, idle, state, exited, begun, refused>>

Settle(r) ==
    /\ \/ Rests(r, "settle") /\ Ended(hand[r].task)
       \/ /\ Goes(r, "settle", "hold")
          /\ state[hand[r].task] \notin {"READY", "TERM", "EXCEPT"}
          /\ UNCHANGED hand
    /\ UNCHANGED <<threadVars, mainVars, queueVars, active, idle, state, exited, begun, refused>>

SettleHold(r) ==
    /\ Rests(r, "hold")
    /\ state' = [state EXCEPT ![hand[r].task] = "HOLD"]
    /\ UNCHANGED <<threadVars, mainVars, queueVars, active, idle, exited, begun, refused>>

RunStep(r) ==
    \/ Take(r) \/ Idle(r)
    \/ RunCallback(r) \/ Refuse(r) \/ Accept(r) \/ SwapInBusy(r) \/ SwapIn(r) \/ Enter(r)
    \/ Yield(r) \/ SwapOut(r) \/ Leave(r) \/ Finish(r)
    \/ Back(r) \/ SettleReady(r) \/ Settle(r) \/ SettleHold(r)

\* Mutant: the thread needs m_mutex before it reports that it runs.
PoolStepLocked(t) ==
    /\ Alive /\ ~locked
    /\ BodyEnter(t) \/ PostStarted(t)
    /\ UNCHANGED <<mainVars, runVars, queueVars>>

\* Thread::run up to the call of run().
PoolStep(t) ==
    /\ Alive
    /\ BodyEnter(t) \/ PostStarted(t)
    /\ UNCHANGED <<mainVars, runVars, queueVars>>

-----------------------------------------------------------------------------
Next ==
    \/ MainStep
    \/ Schedule \/ ScheduleRange
    \/ \E t \in Threads : PoolStep(t)
    \/ \E r \in Runners : RunStep(r)

Spec == Init /\ [][Next]_vars

\* Every thread runs on, and what the user's functions do comes to an end; the
\* caller finishes start() and stop() once it called them.
Fairness ==
    /\ WF_vars(StartThread \/ StartRecord \/ StartEnd \/ StopEarly \/ StopMark \/ StopCall)
    /\ \A t \in Threads : WF_vars(PoolStep(t))
    /\ \A r \in MayRun : WF_vars(RunStep(r))

FairSpec == Spec /\ Fairness

-----------------------------------------------------------------------------
Queued(x) == {i \in DOMAIN queue : queue[i].task = x}
Holding(x) == {r \in Runners : pc[r] \in {"taken", "swapin", "enter"} /\ hand[r].task = x}

\* m_active_thread_count, which stopping() relies on, is the number of threads
\* between taking an entry and coming back from it, on every way back.
ActiveMatches ==
    active = Cardinality({r \in Runners : pc[r] \notin {"out", "loop", "settle", "hold"}})

\* Every entry ever queued is in the queue, in a thread's hand, entered or
\* turned away: none is lost or run twice, whichever threads scan at a time.
EntriesAccounted ==
    \A x \in Tasks :
        scheduled[x] = Cardinality(Queued(x)) + Cardinality(Holding(x)) + begun[x] + refused[x]

\* start() returns although it holds m_mutex while it waits for its threads.
StartReturns ==
    main = "starting" ~> main # "starting" \/ exited \/ Shared

\* Threads serve a pin: its own thread, for -1 some pool thread, or the caller
\* in stop().
Served(p) ==
    IF p \in pool \/ (p = AnyThread /\ pool # {})
    THEN main # "new"
    ELSE main \in {"stop", "mark", "test", "called"}

\* Every task that is queued begins, whatever is pinned in front of it, unless
\* a finished function ends the process.
EveryTaskBegins ==
    \A x \in Tasks :
        (\E i \in Queued(x) : Served(queue[i].pin)) ~> begun[x] > 0 \/ exited \/ Shared

\* "协程正在执行": the scan steps over a fiber in execution (scheduler.cc,
\* line 149), so that no two threads are in one fiber.
OneThreadPerFiber == ~Shared
=============================================================================
