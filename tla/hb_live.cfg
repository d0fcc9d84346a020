\* One client under weak fairness.
SPECIFICATION FairSpec
CONSTANTS
    c1 = c1
    c2 = c2
    s1 = s1
    s2 = s2
    home = home
    far = far
    alt = alt
    gw = gw
    None = None
    Clients <- OneClient
    Addrs <- MCAddrs
    AddrOf <- OneAddrOf
    Pid <- OnePid
    IdMod = 4
    SeqMod = 2
    MaxAge = 2
    Capacity = 4
    Errors <- HostUnreachable
    Responders <- NobodyElse
    Faults <- LiveFaults
    Router = gw
    Servers <- OneServer
    Homes <- OneHomes
    Hosts <- OneHosts
    Dns <- StableDns
    Count = 2
PROPERTIES
    WaitEnds
    LoopEnds
    ImplementsFairLedger
CHECK_DEADLOCK FALSE
