SPECIFICATION MCSpec
CONSTANTS
    Path = {p1}
    Watched = {p1}
    Thread = {t1, t2}
    MtimeSteps = {2, 3}
    Recovery = TRUE
    MaxRetries = 1
    MaxEdits = 2
    MaxRestarts = 2
    None = None
    f1 = f1
    f2 = f2
    c1 = c1
    c2 = c2
    FwFile = {f1}
    FwMaxEdits = 3
    FwMaxChecks = 3
    FcName = {f1, f2}
    FcContent = {x, y}
    FcCycle = {c1, c2}
    FcLoads <- MCFcLoads
    FcNone = FcNone
CHECK_DEADLOCK FALSE
SYMMETRY ThreadSymmetry
INVARIANTS
    TypesOK
    LookupFreshUnlessVouched
    TrustedFaithful
    FwStaleSkipOnlyDropped
    FcSuccessCovered
