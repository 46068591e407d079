CONSTANTS
    h1 = h1  h2 = h2  c1 = c1  c2 = c2  d1 = d1  d2 = d2  n1 = n1  n2 = n2
    None = None
    Nobody = Nobody
    Publishers <- TwoHandlers
    Channels <- OneDevice
    Connections <- TwoConnections
    Names <- OneName
    DefaultName = n1
    Statuses = {"offline"}
    Databases = {"postgresql"}
    Faults = {"commit"}
    MaxNamed = 0
    MaxRequests = 4
SPECIFICATION FairSpec
INVARIANT
    HeardBeforeStored
PROPERTIES
    HandlersFinish
    DeadLeave
