SPECIFICATION Spec
CONSTANTS
    d1 = d1  d2 = d2  d3 = d3  d4 = d4  d5 = d5
    NULL = NULL
    Old = Old
    Past = Past
    Dest = {d1, d2, d3, d4, d5}
    RIP_ROUTE_TABLE_SIZE = 5
    RIP_ENTRIES = 2
    Garbage <- Zero
INVARIANT EveryRouteIsSent
CHECK_DEADLOCK FALSE
