CONSTANTS
    h1 = h1  h2 = h2  c1 = c1  c2 = c2  d1 = d1  d2 = d2  n1 = n1  n2 = n2
    None = None
    Nobody = Nobody
    Publishers <- TwoHandlers
    Channels <- TwoDevices
    Connections <- OneConnection
    Names <- TwoNames
    DefaultName = n1
    Statuses = {"offline", "idle"}
    Databases = {"sqlite", "postgresql"}
    Faults = {"commit"}
    MaxNamed = 2
    MaxRequests = 3
SPECIFICATION Spec
INVARIANTS
    TypeOK
    StatusesAgree
    CapabilitiesBounded
PROPERTIES
    NamesKept
    ImplementsBook
