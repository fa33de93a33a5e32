CONSTANTS
    a = a
    b = b
    Blank = Blank
    o1 = o1
    o2 = o2
    t1 = t1
    t2 = t2
    People = {a, b}
    Offices = {o1, o2}
    Tasks = {t1, t2}
    MaxHaste = 1
    MaxEvents = 1
SPECIFICATION AdminSpec
SYMMETRY Symmetric
INVARIANTS AdminTypeOK  NoExistingUserIsAdded ButtonComesBack
