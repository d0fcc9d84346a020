\* A router reports a host unreachable.
SPECIFICATION Spec
CONSTANTS
    c1 = c1
    c2 = c2
    s1 = s1
    s2 = s2
    home = home
    far = far
    alt = alt
    gw = gw
    None = None
    Clients <- OneClient
    Addrs <- MCAddrs
    AddrOf <- OneAddrOf
    Pid <- OnePid
    IdMod = 4
    SeqMod = 2
    MaxAge = 2
    Capacity = 4
    Errors <- HostUnreachable
    Responders <- NobodyElse
    Faults <- NoFaults
    Router = gw
    Servers <- OneServer
    Homes <- OneHomes
    Hosts <- OneHosts
    Dns <- StableDns
    Count = 2
INVARIANTS
    ErrorDetailsStored
CHECK_DEADLOCK FALSE
