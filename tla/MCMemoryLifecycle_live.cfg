SPECIFICATION FairSpec
CONSTANTS
    Memories = {m1}
    Keyed = {m1}
    GitEnabled = TRUE
    Chatting = {m1}
    Faults = {}
    LateFaults = {}
    MaxCrashes = 1
    NoMemory = NoMemory
PROPERTIES
    EveryDeletionEnds
    EveryJournalIsResolved
    EveryMemoryIsBackedUp
