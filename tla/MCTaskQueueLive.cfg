CONSTANTS
    w1 = w1  w2 = w2  t1 = t1  t2 = t2  d1 = d1  d2 = d2
    None = None
    Workers <- OneWorker
    Tasks <- TwoTasks
    Devices <- TwoDevices
    Payloads = {1}
    Reports <- FinalReports
    RcaEnabled = TRUE
    Faults = {}
    MaxReady = 2
    MaxCrashes = 0
SPECIFICATION FairSpec
INVARIANTS
    ReplayedWasAssigned
PROPERTIES
    AssignmentReachesLog
    FailureIsAnalysed
