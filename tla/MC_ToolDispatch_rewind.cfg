CONSTANTS
    CallIds = {a, b}
    Guarded = {read}
    Unguarded = {write}
    MaxBatch = 1
    MaxStep = 3
    Window = 1
    Lag = 1
SPECIFICATION Spec
INVARIANT GapIsPermanentCeiling
