SPECIFICATION HSpec
CONSTANTS
    d1 = d1  d2 = d2  n1 = n1  n2 = n2  me = me
    NULL = NULL
    Dest = {d1, d2}
    Router = {n1, n2, me}
    Self = me
    Senders = {n1, n2}
    RIP_ROUTE_TABLE_SIZE = 2
    RIP_INFINITY = 3
    TIMEOUT = 2
    GARBAGE_COLLECTOR = 1
    UpdateTimes = {1}
    MaxLag = 1
    MessageMetrics = {0, 1, 2}
    RIP_ENTRIES = 3
    MaxEntries = 1
    Files <- NoFile
SYMMETRY PeersAndDests
INVARIANTS
    BelievesNextHop
    LifeCountsFromNextHop
PROPERTIES
    ForgottenOnlyAfterSilence
