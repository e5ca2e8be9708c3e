SPECIFICATION FwSpec
CONSTANTS
    FwFile = {f1}
    FwMaxEdits = 3
    FwMaxChecks = 3
CHECK_DEADLOCK FALSE
INVARIANT
    FwNoStaleSkip
