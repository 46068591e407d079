CONSTANTS
    w1 = w1  w2 = w2  t1 = t1  t2 = t2  d1 = d1  d2 = d2
    None = None
    Workers <- OneWorker
    Tasks <- OneTask
    Devices <- TwoDevices
    Payloads = {1}
    Reports <- AllReports
    RcaEnabled = TRUE
    Faults = {"commit", "save"}
    MaxReady = 2
    MaxCrashes = 1
SPECIFICATION Spec
INVARIANTS
    ResultMatchesStatus
    PublishedAsReported
    VersionsSequential
PROPERTIES
    AssignsOnlyPending
    CancelSparesFinished
    ImplementsLedger
