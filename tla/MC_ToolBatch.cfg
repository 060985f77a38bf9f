CONSTANTS
    j1 = j1
    j2 = j2
    j3 = j3
    r1 = r1
    r2 = r2
    r3 = r3
    Jobs = {j1, j2, j3}
    Rules = {r1, r2, r3}
    Absent = Absent
    None = None
    MaxRules = 2
    Batches <- MCBatches
    Scribbles <- MCScribbles
SPECIFICATION FairSpec
INVARIANTS
    CacheIsKnown
    WorkersReaped
    ShellsReaped
PROPERTIES
    RegisterSpec
    StageEnds
    CallsOnlyAdvance
    OrphansEnd
CHECK_DEADLOCK FALSE
