\* nfd against the descriptors open once both loops wait.
CONSTANTS
    c1 = c1
    c2 = c2
    NoConn = NoConn
    Clients = {c1, c2}
    Fds = {1, 2}
    MaxBytes = 1
    SndCap = 1
    BufLen = 1
    BlockSize = 2
    NfdMod = 8
    Interrupts = FALSE
SPECIFICATION Spec
INVARIANTS
    NfdIsDescriptorCount
CHECK_DEADLOCK FALSE
