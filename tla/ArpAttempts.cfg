SPECIFICATION Spec
CONSTANTS
    i1 = i1  i2 = i2  m1 = m1  m2 = m2
    NULL = NULL
    Ip = {i1, i2}
    Mac = {m1, m2}
    CACHE_SIZE = 2
    CACHE_TIME = 2
    TIMEOUT = 2
    MaxOthers = 1
SYMMETRY Addresses
INVARIANT AttemptsListen
