\* Two processes share a file: they insert, summarise and clean up over three units of time.
SPECIFICATION Spec
CONSTANTS
    p1 = p1
    p2 = p2
    t1 = t1
    t2 = t2
    default = default
    other = other
    near = near
    far = far
    None = None
    Processes <- TwoProcesses
    Threads <- TwoThreads
    ProcessOf <- OneInEach
    Files <- OneFile
    ModulePath = default
    Ips <- OneIp
    Ids <- OneId
    Kinds <- ProbeKinds
    Keep = 1
    Window = 1
    MaxRows = 2
    MaxNow = 2
SYMMETRY SwapProcesses
INVARIANTS
    MeasuredServersWereSeen
    CleanupLeavesNothingOld
    StatsBracketTruth
PROPERTIES
    ImplementsStore
CHECK_DEADLOCK FALSE
