CONSTANTS
    e1 = e1
    e2 = e2
    w1 = w1
    w2 = w2
    NoEvent = NoEvent
    Account = Account
    Events = {e1, e2}
    Keyed = {e1}
    Writers = {w1, w2}
    Realtime = TRUE
    Take = 1
    MaxTime = 2
    MaxFaults = 1
SPECIFICATION FeedSpec
SYMMETRY SymmetricWriters
INVARIANTS FeedTypeOK ShownWasCommitted NothingSkipped
PROPERTY RowsAreKept
