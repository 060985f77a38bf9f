CONSTANTS
    Owners = {alice}
    Channels = {c1}
    Runs = {r1, r2}
    Tokens = {t1}
    Outcomes = {"completed", "stopped"}
    Admins = {}
    DiskFaults = TRUE
    None = None
SPECIFICATION FairLifecycleSpec
INVARIANT EndedRunsAreTerminated
PROPERTY EveryCrashIsSettled
