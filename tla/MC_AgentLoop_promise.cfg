CONSTANTS
    ask = ask
    again = again
    other = other
    Messages = {ask, again, other}
    Says <- SaysOf
    MaxDepth = 1
    MaxLoops = 3
    MaxThoughts = 2
    CheckpointInterval = 1
    ReportEvery = 2
    KeepRecent = 1
    TailMessages = 2
    None = None
SPECIFICATION LoopSpec
CHECK_DEADLOCK FALSE
INVARIANT AppliedReachesAStep
