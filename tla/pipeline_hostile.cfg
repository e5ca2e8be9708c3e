SPECIFICATION Spec
CONSTANTS
    Request = {r1}
    FirstSource = {0, 1}
    MaxEdits = 2
    MaxOverflows = 0
    QuietBuilds = FALSE
    InWorkingDir = FALSE
    LateArm = TRUE
    Evictions = TRUE
    None = None
INVARIANTS
    TypeOK
    VerifiedKeyFresh
