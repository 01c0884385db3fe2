SPECIFICATION FairSpec
CONSTANTS
    N = 3
    c1 = c1
    c2 = c2
    c3 = c3
    m1 = m1
    m2 = m2
    m3 = m3
    m4 = m4
    Requests <- MCRequests
    Callers <- MCCallers
    Mutexes <- MCMutexes
    Nobody = Nobody
    NoMutex = NoMutex
INVARIANTS
    TypeOK
    MutualExclusion
    NoCircularWait
PROPERTIES
    EveryCallerEnters
