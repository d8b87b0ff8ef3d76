\* Liveness: two clients, the second descriptor reused or not, no failing wait.
CONSTANTS
    c1 = c1
    c2 = c2
    NoConn = NoConn
    Clients = {c1, c2}
    Fds = {1, 2}
    MaxBytes = 1
    SndCap = 1
    BufLen = 1
    BlockSize = 4
    NfdMod = 8
    Interrupts = FALSE
SPECIFICATION LiveSpec
PROPERTIES
    EveryByteEchoed
    EveryFinCloses
CHECK_DEADLOCK FALSE
