SPECIFICATION Spec
CONSTANTS
    d1 = d1  d2 = d2  d3 = d3  n1 = n1  n2 = n2  me = me  gw = gw
    NULL = NULL
    Dest = {d1, d2}
    Router = {n1, me, gw}
    Self = me
    Senders = {n1, me}
    RIP_ROUTE_TABLE_SIZE = 2
    RIP_INFINITY = 3
    TIMEOUT = 2
    GARBAGE_COLLECTOR = 1
    UpdateTimes = {2}
    MaxLag = 1
    MessageMetrics = {0, 2, 3}
    RIP_ENTRIES = 2
    MaxEntries = 1
    Files <- OneStatic
PROPERTIES
    FileRouteOutlivesEqual
