SPECIFICATION Spec
CONSTANTS
    u1 = u1
    u2 = u2
    t1 = t1
    c1 = c1
    c2 = c2
    v1 = v1
    v2 = v2
    o1 = o1
    o2 = o2
    o3 = o3
    Objs <- MCObjs
    Keys <- MCKeys
    TcpKeys <- MCTcpKeys
    IpOf <- MCIpOf
    Clients <- MCClients
    Vips <- MCVips
    HintOf <- MCHintOf
    Janitors = {"heartbeat"}
    MaxPending = 2
    MaxPerIp = 1
    MaxClients = 2
    None = None
SYMMETRY Symmetry
INVARIANTS
    AddressExclusive
    OneSessionPerIdentity
CHECK_DEADLOCK FALSE
