SPECIFICATION Spec
CONSTANTS
    Memories = {m1}
    Keyed = {m1}
    GitEnabled = TRUE
    Chatting = {m1}
    Faults = {"env", "import", "journal", "clear", "content", "undo", "db", "git", "stage",
              "clean", "loss"}
    LateFaults = {"journal", "clear", "content", "undo", "git", "stage", "restore", "clean"}
    MaxCrashes = 1
    NoMemory = NoMemory
INVARIANTS
    NothingAmbiguous
    HalfDoneIsJournaled
PROPERTIES
    RemovalIsCommittedFirst
