SPECIFICATION MCSpec
CONSTANTS
    Path = {f1, f2}
    Writer = {w1}
    Registrar = {c1}
    Evictor = {e1}
    MaxJournalEntries = 1
    MaxClock = 2
    Untracked = Untracked
    p1 = p1
    p2 = p2
    r1 = r1
    StPublisher = {p1, p2}
    StReader = {r1}
    StGeneration = {g1, g2}
    StNone = StNone
    StLoads <- MCLoads
    IxKey = {k1}
    IxPublisher = {p1, p2}
    IxMaxQueue = 2
    IxMaxPending = 2
INVARIANTS
    TypesOK
    UnchangedIsEvidence
    JournalAgrees
    
    
    IxRowHasFiles
    IxGracefulStopKeeps
    IxErasedStaysErased
PROPERTY
    StImplementsCell
