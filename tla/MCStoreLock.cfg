CONSTANTS
    a = a
    b = b
    c = c
    r1 = r1
    r2 = r2
    e1 = e1
    e2 = e2
    e3 = e3
    NoRequest = NoRequest
    NoCall = NoCall
    Requests = {a, b, c}
    Replicas = {r1, r2}
    Entries = {e1, e2, e3}
    userSessionsMax = 2
    Home <- MCHome
    Calls <- MCCalls
    OldList <- MCOldList
    redis = TRUE
    storeLockTTL = 1
SPECIFICATION FairSpec
INVARIANTS TypeOK MutualExclusion LocalExclusion NoLostUpdate TimeoutMeansContention
PROPERTIES ImplementsAtomicIndex HoldReturns StaleLockFreed
