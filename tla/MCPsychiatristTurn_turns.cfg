SPECIFICATION Spec
CONSTANTS
    Threads = {h1}
    Turns = {t1, t2}
    Readers = {v1}
    MaxTurns = 1
    MaxDeltas = 1
    MaxFaults = 1
    MaxCrashes = 1
    None = None
SYMMETRY Symmetry
CHECK_DEADLOCK FALSE
INVARIANTS
    SlotsBalanced
    AnswerNeverDenied
    EventsTellTheRecord
PROPERTIES
    AnswerIsKept
