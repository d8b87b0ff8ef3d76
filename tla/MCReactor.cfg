\* Two clients, two bytes each, two descriptors in two blocks, one-byte buffer:
\* every interleaving of the two threads, with descriptor reuse, block growth,
\* resets and failing waits.
CONSTANTS
    c1 = c1
    c2 = c2
    NoConn = NoConn
    Clients = {c1, c2}
    Fds = {1, 2}
    MaxBytes = 2
    SndCap = 1
    BufLen = 1
    BlockSize = 2
    NfdMod = 8
    Interrupts = TRUE
SPECIFICATION Spec
SYMMETRY MCSymmetry
INVARIANTS
    TypeOK
    EchoInOrder
    NothingDropped
    NoLostEdge
    TeardownOwn
    EventsAreLive
    NoDescriptorLeak
    DeathNeedsDesertion
CHECK_DEADLOCK FALSE
