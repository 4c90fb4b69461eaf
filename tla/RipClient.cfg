SPECIFICATION CSpec
CONSTANTS
    d1 = d1  d2 = d2  d3 = d3  d4 = d4
    NULL = NULL
    Old = Old
    Past = Past
    Dest = {d1, d2, d3, d4}
    RIP_ROUTE_TABLE_SIZE = 4
    RIP_ENTRIES = 2
    MaxWanted = 3
    Garbage <- Counters
SYMMETRY Dests
INVARIANTS
    CTypeOK
    SmallTableSentWhole
    NobodyWaitsForNothing
PROPERTIES
    FullBufferIsFresh
    AnswerFitsQuestion
