SPECIFICATION MCSpec
CONSTANTS
    q1 = q1
    q2 = q2
    q3 = q3
    k1 = k1
    k2 = k2
    k3 = k3
    ExRequest = {q1, q2, q3}
    ExPolicies <- MCPolicies
    ExMaxEdits = 1
    ExLoads <- MCExLoads
    ExNone = ExNone
    AdRequest = {q1, q2, q3}
    AdUnit <- MCUnits
    AdHost <- MCHosts
    DmKey = {k1, k2, k3}
    DmStaged = {k1, k2}
    DmAlloc <- MCAlloc
    DmCapacity = 1000
    DmLoads <- MCDmLoads
    DmMaxEvents = 2
CHECK_DEADLOCK FALSE
INVARIANTS
    TypesOK
    ExSlotOwned
    ExStoredMatchesKey
    ExOnceWithoutDepfile
    AdExclusiveAlone
    AdPositionNotAbove
    DmRelieved
    DmRoundsBounded
PROPERTIES
    ExAnswered
    
    DmEvictionJustified
    DmEvictionNeeded
