SPECIFICATION FairStreamSpec
CONSTANTS
    Followers = {c1, c2}
    AppendFaults = {"nothing", "torn"}
    MaxRows = 3
    MaxPending = 1
    MaxEvents = 1
    MaxTells = 2
    MaxDrops = 1
    MaxLosses = 1
    NoEvent = NoEvent
CHECK_DEADLOCK FALSE
PROPERTIES
    ImplementsFeed
    EveryFollowerIsTold
