SPECIFICATION Spec
CONSTANTS
    MaxTurns = 2
    MaxRequests = 2
    MaxDeltas = 1
    MaxThreads = 2
    MaxStops = 1
    MaxFaults = 2
    MaxTroubles = 3
    StartsWhileLoading = FALSE
    None = None
CHECK_DEADLOCK FALSE
INVARIANTS
    IdleShowsWholeAnswers
    PermissionIsForTheAsker
    BusyWaits
