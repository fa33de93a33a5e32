CONSTANTS
    a = a
    b = b
    r1 = r1
    q1 = q1
    q2 = q2
    NoUser = NoUser
    Users = {a, b}
    Actor = a
    Archivable = {}
    Requests = {r1}
    AdminRequests = {q1, q2}
    Total = 1
    MaxRetries = 2
    MaxRows = 2
    MaxFaults = 0
    MaxTotal = 2
    MaxEdits = 2
SPECIFICATION LicenseSpec
SYMMETRY Symmetric
INVARIANTS LicenseTypeOK ChargedWithinTotal OneSeatPerUser
PROPERTY NoGrantOnArchivedLicense
CHECK_DEADLOCK FALSE
