SPECIFICATION FairSpec
CONSTANTS
    Readers = {r1, r2}
    Jobs = {j1}
    Hashes = {h1, h2}
    Selections <- Nested
    Recovery = Recovery
    Scan = Scan
    Faults = {"database", "export", "sync", "intent", "clear"}
    MaxFaults = 2
    None = None
CHECK_DEADLOCK FALSE
INVARIANTS
    StaleExportIsJournaled
PROPERTIES
    MarksChangeOneToggleAtATime
    EveryIntentIsResolved
