CONSTANTS
    w1 = w1  w2 = w2  t1 = t1  t2 = t2  d1 = d1  d2 = d2
    None = None
    Workers <- TwoWorkers
    Tasks <- OneTask
    Devices <- OneDevice
    Payloads = {1}
    Reports <- RepeatableReports
    RcaEnabled = TRUE
    Faults = {"commit", "save"}
    MaxReady = 1
    MaxCrashes = 1
SPECIFICATION Spec
SYMMETRY Symmetry
INVARIANTS
    TypeOK
    AssignedHasDevice
    FinishedHasResult
    OnlyAssignmentsLogged
    OneEntryPerLife
PROPERTIES
    ReplayIsStable
    ImplementsSharedLedger
