CONSTANTS
    e1 = e1
    e2 = e2
    w1 = w1
    NoEvent = NoEvent
    Account = Account
    Events = {e1, e2}
    Keyed = {e1}
    Writers = {w1}
    Realtime = TRUE
    Take = 2
    MaxTime = 2
    MaxFaults = 1
SPECIFICATION FeedFairSpec
PROPERTY EventsReachThePage
