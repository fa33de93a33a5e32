CONSTANTS
    c1 = c1
    c2 = c2
    Clicks = {c1, c2}
    Devices = 2
    Counts = {2}
    MaxSaved = 2
    MaxEvents = 2
SPECIFICATION IntakeSpec
INVARIANTS IntakeTypeOK StoredSerialsUnique ReviewMeansComplete
SYMMETRY Symmetric
