CONSTANTS
    Owners = {alice, bob}
    Channels = {c1, c2}
    Runs = {r1, r2}
    Tokens = {t1}
    Outcomes = {"completed", "stopped"}
    Admins = {alice}
    DiskFaults = FALSE
    None = None
SYMMETRY Symmetry
SPECIFICATION LifecycleSpec
INVARIANTS
    LifecycleTypeOK
    ReservationExcludesActive
    PreparedIsSelected
    SelectionsAreOwn
    LeasesMatchCatalog
    LiveRunOwnsMemory
PROPERTIES
    Spec
    LiveRecordUntouched
    StartupSettles
    SelectionsSurvive
