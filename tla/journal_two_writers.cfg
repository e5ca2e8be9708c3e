SPECIFICATION Spec
CONSTANTS
    Path = {p1}
    Writer = {w1, w2}
    Registrar = {}
    Evictor = {}
    MaxJournalEntries = 3
    MaxClock = 3
    Untracked = Untracked
INVARIANTS
    UnchangedIsEvidence
