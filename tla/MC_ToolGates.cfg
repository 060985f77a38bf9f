CONSTANTS
    Paths = {p}
    Playbook = p
    Findings = p
    None = None
    Menu <- MCMenu
    MaxBatch = 2
    MaxStep = 3
    FailLimit = 2
    StaleSteps = 3
    DebtFailures = 2
    BlockSteps = 1
    Interval = 2
    Budget = 3
SPECIFICATION Spec
INVARIANTS
    GatesTypeOK
    FailuresAreBounded
    
    BreakerHolds
    WayOut
PROPERTIES
    GateOpensForProgress
CHECK_DEADLOCK FALSE
