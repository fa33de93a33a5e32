CONSTANTS
    a = a
    b = b
    r1 = r1
    r2 = r2
    NoUser = NoUser
    Users = {a, b}
    Archivable = {b}
    Requests = {r1, r2}
    Edited = {"In Repair"}
    MaxRows = 1
    MaxFaults = 1
SPECIFICATION HwFairSpec
INVARIANTS HwTypeOK OneOpenPerAsset AuditIsTruthful
PROPERTIES ImplementsLease RequestsTerminate
