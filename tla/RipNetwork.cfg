SPECIFICATION FairSpec
CONSTANTS
    d = d  a = a  b = b  c = c  gw = gw
    NULL = NULL
    Dest = {d}
    Target = d
    Router = {a, b, c, gw}
    Node = {a, b, c}
    Origin = a
    Gateway = gw
    Links <- Chain
    Dist <- Hops
    Mortal = {a, b}
    RIP_ROUTE_TABLE_SIZE = 1
    RIP_INFINITY = 4
    TIMEOUT = 1
    GARBAGE_COLLECTOR = 1
    UpdateTimes = {1, 2}
    MaxInbox = 1
INVARIANTS
    TypeOK
    MetricIsHonest
PROPERTIES
    
    ReachableRelearned
