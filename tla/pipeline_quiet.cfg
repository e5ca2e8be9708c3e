SPECIFICATION Spec
CONSTANTS
    Request = {r1, r2}
    FirstSource = {0, 1}
    MaxEdits = 1
    MaxOverflows = 1
    QuietBuilds = TRUE
    InWorkingDir = TRUE
    LateArm = FALSE
    Evictions = FALSE
    None = None
SYMMETRY RequestSymmetry
INVARIANTS
    NoStaleServe
    ArtifactsSound
