SPECIFICATION FairSpec
CONSTANTS
    Jobs = {j1}
    Sources = {s1, s2}
    Clients = {c1}
    Cancelers = {x1}
    ChunkCount = 2
    MaxRetries = 1
    MaxCrashes = 1
    MaxEdits = 2
    MaxSpoils = 1
    None = None
INVARIANT
    CompleteIsPublished
PROPERTIES
    CancellationWins
    TranslatedOnce
    EveryScheduledJobEnds
