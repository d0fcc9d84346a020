\* Two clients on one host hear each other and the servers; nothing else goes wrong.
SPECIFICATION Spec
CONSTANTS
    c1 = c1
    c2 = c2
    s1 = s1
    s2 = s2
    home = home
    far = far
    alt = alt
    gw = gw
    None = None
    Clients <- TwoClients
    Addrs <- MCAddrs
    AddrOf <- SideBySide
    Pid <- DistinctPids
    IdMod = 4
    SeqMod = 2
    MaxAge = 2
    Capacity = 5
    Errors <- RedirectForHost
    Responders <- NobodyElse
    Faults <- NoFaults
    Router = gw
    Servers <- TwoServers
    Homes <- TwoHomes
    Hosts <- SideHosts
    Dns <- StableDns
    Count = 2
INVARIANTS
    HealthIsOurs
    ErrorsAreOurs
    RowNamesProbedAddress
    LeavesLoopOnlyWhenTold
    RepliesMirrorRequests
PROPERTIES
    ImplementsLedger
CHECK_DEADLOCK FALSE
