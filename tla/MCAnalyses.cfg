CONSTANTS
    w1 = w1  w2 = w2  s1 = s1  s2 = s2  t1 = t1
    None = None
    Workers <- TwoWorkers
    Slots <- TwoSlots
    Tasks <- OneTask
    Limit = 1
    Hour = 1
    CacheEnabled = TRUE
    MaxTime = 1
    MaxResults = 1
SPECIFICATION FairSpec
INVARIANTS
    TypeOK
    CallsBounded
    CachedTellsOneResult
PROPERTIES
    AnalysisEnds
