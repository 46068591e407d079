CONSTANTS
    w1 = w1  w2 = w2  d1 = d1  t1 = t1  t2 = t2
    None = None
    Workers <- TwoWorkers
    Devices <- OneDevice
    Tasks <- TwoTasks
    Kinds = {"after_complete"}
    ReusesIds = TRUE
    MaxRows = 3
SPECIFICATION Spec
SYMMETRY Symmetry
INVARIANTS
    TypeOK
    LocksBounded
    DependenciesBounded
PROPERTIES
    ImplementsPermits
    OnlyOwnersRelease
