\* Two objects, each constructed, perhaps joined, and destroyed; the owner may
\* stop doing so anywhere, and a constructor whose thread was not made hangs.
CONSTANTS
    t1 = t1
    t2 = t2
    NoId = NoId
    Threads = {t1, t2}
SPECIFICATION FairThreadSpec
INVARIANTS
    BuiltHasId
    GoneAfterCallback
PROPERTIES
    NoWriteAfterDestroy
    OwnerReturns
CHECK_DEADLOCK FALSE
