\* Two pool threads, or the caller alone, and two tasks; a fiber may schedule itself,
\* tasks are pinned or not.
CONSTANTS
    t1 = t1
    t2 = t2
    f1 = f1
    k1 = k1
    NoId = NoId
    Caller = Caller
    AnyThread = AnyThread
    Threads = {t1, t2}
    Setups <- MCPoolOrCaller
    Fibers = {f1}
    Callbacks = {k1}
    Resumed = TRUE
    MaxSchedules = 2
    MaxCalls = 1
    MaxIdle = 1
SPECIFICATION FairSpec
PROPERTIES
    StartReturns
    EveryTaskBegins
CHECK_DEADLOCK FALSE
