SPECIFICATION LibrarySpec
CONSTANTS
    Objects = {o1, o2}
    Numbers = {1, 2, 3}
    NetPeers = {p1, p2}
    Ports = {1, 2}
    NoAddress = NoAddress
    Makers = {"one", "two"}
    PathTexts <- MCPathTexts
    Cwd <- MCCwd
    Intruders <- MCIntruders
    ProjectPaths <- MCProjectPaths
    FrontFds = {1, 2, 3}
    Listeners = 1
    MaxArrivals = 3
    Requests = {r1, r2}
    Buffers = {b1, b2}
    BufferSize = 2
    Tracers = {t1, t2, t3}
    Addresses = {m1, m2}
    NoBlock = NoBlock
    BaseFibers = {"f", "g"}
    Values = {1, 2}
    MaxItems = 3
    FirstCapacity = 1
    Growth = 1
    Loggers = {l1, l2}
    Appandars = {a1}
    FileAppandars = {}
    Formats <- MCFormats
    LogLevels = {0, 4}
    Lengths = {56}
    MaxLines = 1
    MaxListed = 1
    MaxTold = 2
    Users = {u1, u2}
    Names = {port, host}
    Defaults = {1, 2}
    Misread = 3
    MaxVars = 3
    YamlTexts <- MCYamlTexts
INVARIANTS
    DescriptorsOwned
    AddressesExplained
    MkdirsMakes
    CommandsComplete
    PoolBeforeRequests
    CallbacksFit
    RequestsSettle
    LeaksListed
    StacksStaySound
    LinesAsTold
    LookUpAgrees
    PrintsOpenPaths
    PrintsBack
PROPERTIES
    ImplementsList
CHECK_DEADLOCK FALSE
