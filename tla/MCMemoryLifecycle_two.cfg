SPECIFICATION Spec
CONSTANTS
    Memories = {m1, m2}
    Keyed = {m1}
    GitEnabled = TRUE
    Chatting = {}
    Faults = {"db", "stage"}
    LateFaults = {"git"}
    MaxCrashes = 1
    NoMemory = NoMemory
INVARIANTS
    SuccessIsHonest
PROPERTIES
    ClearedOnlyReconciled
    ImplementsCatalog
