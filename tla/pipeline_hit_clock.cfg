SPECIFICATION Spec
CONSTANTS
    Request = {r1}
    FirstSource = {0, 1}
    MaxEdits = 2
    MaxOverflows = 1
    QuietBuilds = FALSE
    InWorkingDir = TRUE
    LateArm = FALSE
    Evictions = FALSE
    None = None
INVARIANTS
    FastKeyFresh
