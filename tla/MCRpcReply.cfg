\* What the parser callback is given to work on.
CONSTANTS
    c1 = c1
    c2 = c2
    NoConn = NoConn
    Clients = {c1, c2}
    Fds = {1, 2}
    MaxBytes = 1
    SndCap = 2
    MaxRequests = 1
    Pipelining = FALSE
    Leaving = FALSE
    Lossy = FALSE
    BufCells = 2
    MaxReply = 2
SPECIFICATION Spec
INVARIANTS
    ReplyReachesParser
CHECK_DEADLOCK FALSE
