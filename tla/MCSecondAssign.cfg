CONSTANTS
    w1 = w1  w2 = w2  t1 = t1  t2 = t2  d1 = d1  d2 = d2
    None = None
    Workers <- TwoWorkers
    Tasks <- OneTask
    Devices <- TwoDevices
    Payloads = {1}
    Reports <- FinalReports
    RcaEnabled = TRUE
    Faults = {}
    MaxReady = 1
    MaxCrashes = 0
SPECIFICATION Spec
PROPERTIES
    AssignsOnlyPending
