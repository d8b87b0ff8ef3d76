\* One call at a time, nothing lost: the service is implemented.
CONSTANTS
    c1 = c1
    c2 = c2
    NoConn = NoConn
    Clients = {c1, c2}
    Fds = {1, 2}
    MaxBytes = 2
    SndCap = 2
    MaxRequests = 4
    Pipelining = FALSE
    Leaving = FALSE
    Lossy = FALSE
    BufCells = 2
    MaxReply = 2
SPECIFICATION FairSpec
INVARIANTS
    AnswersAreOwn
PROPERTIES
    ImplementsService
CHECK_DEADLOCK FALSE
