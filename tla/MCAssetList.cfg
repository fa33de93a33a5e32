CONSTANTS
    a = a
    r1 = r1
    q1 = q1
    l1 = l1
    l2 = l2
    NoUser = NoUser
    Users = {a}
    Actor = a
    Archivable = {}
    Requests = {r1}
    AdminRequests = {q1}
    Readers = {l1, l2}
    Total = 1
    MaxRetries = 1
    MaxRows = 1
    MaxFaults = 0
    MaxTotal = 1
    MaxEdits = 1
    MaxReads = 2
SPECIFICATION ListSpec
SYMMETRY Symmetric
INVARIANTS ListTypeOK ListsShowSettledSeats
CHECK_DEADLOCK FALSE
