SPECIFICATION MCSpec
CONSTANTS
    w1 = w1
    w2 = w2
    skip = skip
    r1 = r1
    d1 = d1
    SeNone = SeNone
    SePath = {w1, w2, skip}
    SeIgnored = {skip}
    SeMaxVersion = 2
    SeMaxInFlight = 2
    RoBuild = {b1, b2, b3}
    WrRaw = {r1}
    WrDir = {d1}
    WrCanonical <- OneSpelling
    WrCall = {c1, c2, c3}
    WrMaxFailures = 2
    WrLosable = {d1}
    c1 = c1
    c2 = c2
    OwClient = {c1, c2}
    OwLoads <- MCOwLoads
    OwMaxDaemons = 2
    OwNone = OwNone
INVARIANTS
    TypesOK
    SeNothingLost
    RoOwedIsScheduled
    WrReservedIsRegistered
    WrMarkedIsWatched
PROPERTIES
    SePendingSettles
    RoEveryOverflowIsRescanned
    WrEventuallyWatched
    OwOthersSpared
CHECK_DEADLOCK FALSE
