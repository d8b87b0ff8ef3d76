\* Clients pipeline and leave, the upstream loses datagrams, numbers are reused.
CONSTANTS
    c1 = c1
    c2 = c2
    NoConn = NoConn
    Clients = {c1, c2}
    Fds = {1, 2}
    MaxBytes = 3
    SndCap = 2
    MaxRequests = 3
    Pipelining = TRUE
    Leaving = TRUE
    Lossy = TRUE
    BufCells = 2
    MaxReply = 3
SPECIFICATION RudeSpec
SYMMETRY MCSymmetry
INVARIANTS
    
    NeglectNeedsLossOrOverlap
    EventsAreLive
CHECK_DEADLOCK FALSE
