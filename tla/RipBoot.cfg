SPECIFICATION BootSpec
CONSTANTS
    g1 = g1  g2 = g2  d1 = d1  d2 = d2  gw = gw
    NULL = NULL
    Unset = Unset
    BITS = 2
    Gateway = {g1, g2}
    IPv4_ROUTE_TABLE_SIZE = 3
    Dest = {d1, d2}
    Router = {gw}
    RIP_ROUTE_TABLE_SIZE = 2
    RIP_INFINITY = 16
    TIMEOUT = 2
    FileLine <- Lines
SYMMETRY Symmetry
INVARIANTS
    BootTypeOK
    LongestMatch
    FirstLineWins
    StartsFromWholeFile
    OnlyOpenStackRuns
CHECK_DEADLOCK FALSE
