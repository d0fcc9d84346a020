\* Two hosts watch each other with clients of equal identifiers.
SPECIFICATION Spec
CONSTANTS
    c1 = c1
    c2 = c2
    s1 = s1
    s2 = s2
    home = home
    far = far
    alt = alt
    gw = gw
    None = None
    Clients <- TwoClients
    Addrs <- MCAddrs
    AddrOf <- FaceToFace
    Pid <- EqualPids
    IdMod = 4
    SeqMod = 2
    MaxAge = 2
    Capacity = 4
    Errors <- RedirectForHost
    Responders <- NobodyElse
    Faults <- NoFaults
    Router = gw
    Servers <- TwoServers
    Homes <- TwoHomes
    Hosts <- CrossHosts
    Dns <- StableDns
    Count = 1
INVARIANTS
    ErrorsAreOurs
CHECK_DEADLOCK FALSE
