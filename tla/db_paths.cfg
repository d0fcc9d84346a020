\* Two threads of one process that is pointed at one file and another.
SPECIFICATION Spec
CONSTANTS
    p1 = p1
    p2 = p2
    t1 = t1
    t2 = t2
    default = default
    other = other
    near = near
    far = far
    None = None
    Processes <- OneProcess
    Threads <- TwoThreads
    ProcessOf <- BothInOne
    Files <- TwoFiles
    ModulePath = default
    Ips <- TwoIps
    Ids <- TwoIds
    Kinds <- Timestamps
    Keep = 1
    Window = 1
    MaxRows = 1
    MaxNow = 0
SYMMETRY ThreadsOrIps
INVARIANTS
    TypeOK
    RowsBelongToTheirServer
PROPERTIES
    ServerIdsStable
    ImplementsStore
CHECK_DEADLOCK FALSE
