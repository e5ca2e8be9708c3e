SPECIFICATION Spec
CONSTANTS
    Path = {p1}
    Watched = {p1}
    Thread = {t1}
    MtimeSteps = {2}
    Recovery = FALSE
    MaxRetries = 3
    MaxEdits = 4
    MaxRestarts = 1
    None = None
INVARIANTS
    LookupFresh
