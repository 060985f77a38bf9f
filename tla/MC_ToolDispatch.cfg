CONSTANTS
    CallIds = {a, b}
    Guarded = {read}
    Unguarded = {write}
    MaxBatch = 2
    MaxStep = 3
    Window = 1
    Lag = 1
SYMMETRY Symmetry
SPECIFICATION Spec
INVARIANTS
    LostGroupsAreCovered
    CoverageIsHonest
PROPERTIES
    RunsOnce
    GuardedRunsOnce
