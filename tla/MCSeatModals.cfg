CONSTANTS
    u1 = u1
    u2 = u2
    u3 = u3
    h = h
    s = s
    t1 = t1
    t2 = t2
    None = None
    Unnamed = Unnamed
    Users = {u1, u2, u3}
    Hardware = {h}
    Software = {s}
    Tasks = {t1, t2}
    Seats = 2
    MaxHaste = 1
    MaxEvents = 1
SPECIFICATION ModalsSpec
SYMMETRY Symmetric
INVARIANTS ModalsTypeOK RowsFollowServer OffersOpenAssignments
