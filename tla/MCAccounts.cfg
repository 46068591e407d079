CONSTANTS
    r1 = r1  r2 = r2  l1 = l1  e1 = e1  e2 = e2  g1 = g1
    None = None
    Requests <- TwoRequests
    Logins <- OneLogin
    Suffixes = {0, 1}
    Emails <- TwoEmails
    Identities <- OneIdentity
    Databases = {"sqlite", "postgresql"}
    Faults = {"commit"}
    MaxBirths = 3
    MaxRequests = 4
SYMMETRY Symmetry
SPECIFICATION Spec
INVARIANTS
    TypeOK
    IdentitiesUnique
    AccountsHaveSettings
    SettingsBounded
PROPERTIES
    DeletionsAudited
    StaysInactive
    ImplementsRegistry
