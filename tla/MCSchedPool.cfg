\* Two pool threads, or one and the caller; a fiber may schedule itself and yield.
CONSTANTS
    t1 = t1
    t2 = t2
    f1 = f1
    k1 = k1
    NoId = NoId
    Caller = Caller
    AnyThread = AnyThread
    Threads = {t1, t2}
    Setups <- MCPoolAndCaller
    Fibers = {f1}
    Callbacks = {k1}
    Resumed = TRUE
    MaxSchedules = 3
    MaxCalls = 1
    MaxIdle = 1
SPECIFICATION Spec
SYMMETRY MCSymmetry
INVARIANTS
    ActiveMatches
    EntriesAccounted
CHECK_DEADLOCK FALSE
