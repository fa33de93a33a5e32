CONSTANTS
    a = a
    b = b
    r1 = r1
    r2 = r2
    NoUser = NoUser
    Users = {a, b}
    Actor = a
    Archivable = {b}
    Requests = {r1, r2}
    Total = 1
    MaxRetries = 2
    MaxRows = 2
    MaxFaults = 1
SPECIFICATION SeatFairSpec
INVARIANTS SeatTypeOK SeatsNeverOversold SeatInv AuditComplete
PROPERTIES ImplementsLedger RequestsTerminate
