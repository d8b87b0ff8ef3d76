\* A fiber schedules itself and yields: two threads enter it.
CONSTANTS
    t1 = t1
    t2 = t2
    f1 = f1
    k1 = k1
    NoId = NoId
    Caller = Caller
    AnyThread = AnyThread
    Threads = {t1, t2}
    Setups <- MCPool
    Fibers = {f1}
    Callbacks = {k1}
    Resumed = TRUE
    MaxSchedules = 2
    MaxCalls = 1
    MaxIdle = 1
SPECIFICATION Spec
INVARIANTS
    OneThreadPerFiber
CHECK_DEADLOCK FALSE
