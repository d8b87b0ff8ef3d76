----------------------------- MODULE BaseFiber -----------------------------
(***************************************************************************)
(* The fibers of BaseModule/src/Fiber, the forerunner of lsylar's: shared  *)
(* pointers where lsylar's use raw ones.  One thread, its main fiber and   *)
(* the fibers that its stacks create, swap in and out, reset and drop.     *)
(* All of it is thread_local but two counters, so that threads that keep   *)
(* to their own fibers do not meet.                                        *)
(*                                                                         *)
(* A fiber has a stack, and an object with a context that resumes a stack; *)
(* the two part when a fiber swaps in another.  Left out: swapin of the    *)
(* main fiber's own object, swapout of an object other than the current    *)
(* one, and a new callback for a fiber that is suspended.                  *)
(***************************************************************************)
EXTENDS Integers, SequencesExt

CONSTANT BaseFibers     \* the fibers made with a callback

Main == "main"
Everyone == BaseFibers \cup {Main}

\* A fiber has a name of its own.
ASSUME BaseFiberAssumption == BaseFibers \cap {Main, "running", "none", "null"} = {}

VARIABLES
    fiber,          \* the objects: m_state, and the stack m_ctx resumes
    held,           \* the fibers the program has a shared_ptr of
    locals,         \* the shared_ptrs that live on each stack: MainFunc's cur, then Yeld's
    leaked,         \* fibers with a shared_ptr on a stack that was begun again
    saved,          \* whose context was written when a stack was left last
    running,        \* the stack in execution
    t_fiber,        \* the thread's t_fiber
    process,        \* "runs", "exited", or how it died
    nested          \* history: a fiber was swapped in by another

baseVars == <<fiber, held, locals, leaked, saved, running, t_fiber, process, nested>>

Start(f) == [stack |-> f, fresh |-> TRUE]       \* makecontext(MainFunc)
Rest(s) == [stack |-> s, fresh |-> FALSE]       \* what swapcontext saves
NoFiber == [state |-> "none", ctx |-> Rest(Main)]

BaseInit ==
    /\ fiber = [f \in Everyone |-> NoFiber]
    /\ held = {} /\ leaked = {} /\ locals = [s \in Everyone |-> <<>>]
    /\ saved = [s \in Everyone |-> IF s = Main THEN "running" ELSE "none"]
    /\ running = Main /\ t_fiber = "null" /\ process = "runs" /\ nested = FALSE

Made(f) == fiber[f].state # "none"
Alive(f) ==     \* Main: t_thread_fiber's
    \/ f = Main /\ Made(Main)
    \/ f \in held \cup leaked
    \/ \E s \in Everyone : \E i \in DOMAIN locals[s] : locals[s][i] = f

Create(f) ==
    /\ process = "runs" /\ ~Made(f)
    /\ fiber' = [fiber EXCEPT ![f] = [state |-> "INIT", ctx |-> Start(f)]]
    /\ held' = held \cup {f}
    /\ UNCHANGED <<locals, leaked, saved, running, t_fiber, process, nested>>

\* reset complains of a state and goes on; the state stays what it is.
ResetCb(f) ==
    /\ process = "runs" /\ f \in held
    /\ fiber' = [fiber EXCEPT ![f].ctx = Start(f)]
    /\ UNCHANGED <<held, locals, leaked, saved, running, t_fiber, process, nested>>

DropPtr(f) ==
    /\ process = "runs" /\ f \in held /\ held' = held \ {f}
    /\ UNCHANGED <<fiber, locals, leaked, saved, running, t_fiber, process, nested>>

\* GetThis by the thread that has no fiber yet makes the main one.
GetThisFirst ==
    /\ process = "runs" /\ t_fiber = "null"
    /\ fiber' = [fiber EXCEPT ![Main].state = "EXEC"] /\ t_fiber' = Main
    /\ UNCHANGED <<held, locals, leaked, saved, running, process, nested>>

Die(how) ==
    /\ process' = how
    /\ UNCHANGED <<fiber, held, locals, leaked, saved, running, nested>>

\* Mutant: MainFunc keeps a plain pointer, as lsylar's does.
EnterRaw(o, rest, left) ==
    LET c == fiber[o].ctx IN
    /\ running' = c.stack
    /\ saved' = [left EXCEPT ![c.stack] = "running"]
    /\ locals' = [rest EXCEPT ![c.stack] =
            IF c.fresh THEN <<>> ELSE IF @ = <<>> THEN @ ELSE Front(@)]
    /\ UNCHANGED <<leaked, process>>

\* The second half of a swapcontext to o's context: MainFunc takes a shared_ptr
\* of the current fiber, or the stack goes on behind its swapin, or behind its
\* Yeld, whose shared_ptr goes.
Enter(o, rest, left) ==
    LET c == fiber[o].ctx
        s == c.stack
    IN  /\ running' = s
        /\ saved' = [left EXCEPT ![s] = "running"]
        /\ IF c.fresh
           THEN /\ locals' = [rest EXCEPT ![s] = <<o>>]
                /\ leaked' = leaked \cup ToSet(rest[s])
           ELSE /\ locals' = [rest EXCEPT ![s] =
                        IF Len(@) = (IF s = Main THEN 0 ELSE 1) THEN @ ELSE Front(@)]
                /\ UNCHANGED leaked
        /\ UNCHANGED process

\* A context that was not the last to be written for its stack leads nowhere.
Leads(o, left) ==
    LET c == fiber[o].ctx IN IF c.fresh THEN c.stack # running ELSE left[c.stack] = o

\* t_fiber changes before the state is looked at.
Swapin(f) ==
    /\ process = "runs" /\ f \in held
    /\ t_fiber' = f
    /\ IF fiber[f].state = "EXEC"
       THEN UNCHANGED <<fiber, held, locals, leaked, saved, running, process, nested>>
       ELSE LET left == [saved EXCEPT ![running] = Main] IN
            IF ~Made(Main) THEN Die("null")
            ELSE IF ~Leads(f, left) THEN Die("wild")
            ELSE /\ fiber' = [fiber EXCEPT ![f].state = "EXEC", ![Main].ctx = Rest(running)]
                 /\ Enter(f, locals, left)
                 /\ nested' = (nested \/ running # Main)
                 /\ UNCHANGED held

\* YeldToHold, YeldToReady, or GetThis()->swapout(): whatever the state was to
\* be, swapout writes TERM.  The current fiber's context is saved and the main
\* fiber's entered, even if the two are one.
Yeld ==
    /\ process = "runs" /\ t_fiber # "null"
    /\ t_fiber' = Main
    /\ LET cur == t_fiber
           left == [saved EXCEPT ![running] = cur]
       IN IF cur = Main
          THEN /\ fiber' = [fiber EXCEPT ![Main] = [state |-> "TERM", ctx |-> Rest(running)]]
               /\ UNCHANGED <<held, locals, leaked, saved, running, process, nested>>
          ELSE IF ~Alive(cur) \/ ~Leads(Main, left) THEN Die("wild")
          ELSE /\ fiber' = [fiber EXCEPT ![cur] = [state |-> "TERM", ctx |-> Rest(running)]]
               /\ Enter(Main, [locals EXCEPT ![running] = Append(@, cur)], left)
               /\ UNCHANGED <<held, nested>>

\* The callback returns or throws: MainFunc's shared_ptr goes, and with the last
\* one the stack it runs on; then the context without a successor exits.
MainFuncEnds ==
    /\ process = "runs" /\ running # Main
    /\ \E state \in {"TERM", "EXCEPT", fiber[running].state} :
            fiber' = [fiber EXCEPT ![running].state = state]
    /\ locals' = [locals EXCEPT ![running] = <<>>]
    /\ saved' = [saved EXCEPT ![running] = "none"]
    /\ UNCHANGED <<held, leaked, running, t_fiber, nested>>
    /\ process' = IF Alive(running)' THEN "exited" ELSE "freed under itself"

BaseNext ==
    \/ \E f \in BaseFibers : Create(f) \/ ResetCb(f) \/ DropPtr(f) \/ Swapin(f)
    \/ GetThisFirst \/ Yeld \/ MainFuncEnds

BaseSpec == BaseInit /\ [][BaseNext]_baseVars

-----------------------------------------------------------------------------
\* The memory of a stack that was begun and has not come to its end stays, even
\* when the program dropped its pointer (for good: such a fiber is never freed).
\* As long as only the main fiber swaps in, as Fiber.h says it must be, t_fiber
\* is the fiber in execution, every context resumes the stack of its own fiber,
\* and no context leads nowhere.
StacksStaySound ==
    /\ \A f \in BaseFibers : saved[f] # "none" => Alive(f)
    /\ nested \/ /\ process # "wild"
                 /\ process = "runs" => t_fiber \in {running, "null"}
                 /\ \A f \in BaseFibers : fiber[f].ctx.stack \in {f, Main} /\
                        (Made(f) => fiber[f].ctx.stack = f)
=============================================================================
