SPECIFICATION OFairSpec
CONSTANTS
    i1 = i1  i2 = i2  me = me  m1 = m1  m2 = m2
    NULL = NULL
    Ip = {i1, i2, me}
    Mac = {m1, m2}
    CACHE_SIZE = 2
    CACHE_TIME = 2
    TIMEOUT = 1
    MaxOthers = 1
    Own = me
    OwnMac = OwnMac
    Multicast = Multicast
    MulticastMac = MulticastMac
    Broadcasts = {}
    Zero = Zero
    Forwarding <- Tables
INVARIANTS
    OneLiveEntry
    AnswerIsTargets
    FramesGoToNextHop
PROPERTIES
    LiveEntryIsKept
    Spec
    EveryCallReturns
CHECK_DEADLOCK FALSE
