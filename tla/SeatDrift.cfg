CONSTANTS
    a = a
    r1 = r1
    r2 = r2
    NoUser = NoUser
    Users = {a}
    Actor = a
    Archivable = {}
    Requests = {r1, r2}
    Total = 1
    MaxRetries = 3
    MaxRows = 2
    MaxFaults = 0
SPECIFICATION SeatSpec
SYMMETRY SymmetricRequests
INVARIANT UsedMatchesOpen
