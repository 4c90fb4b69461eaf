SPECIFICATION FairSpec
CONSTANTS
    Frames <- Kinds
    Timeouts <- Waits
    MaxWait = 2
    MaxQueue = 2
    MaxArrivals = 3
INVARIANTS
    TypeOK
    DeliveredInOrder
    GivesUpInTime
PROPERTY FiniteReceiveEnds
