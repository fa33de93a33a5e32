CONSTANTS
    u1 = u1
    u2 = u2
    h = h
    s = s
    t1 = t1
    t2 = t2
    None = None
    Unnamed = Unnamed
    Users = {u1, u2}
    Hardware = {h}
    Software = {s}
    Tasks = {t1, t2}
    Seats = 2
    MaxHaste = 1
    MaxEvents = 1
SPECIFICATION ModalsSpec
SYMMETRY Symmetric
INVARIANT AgreementIsForAsset
