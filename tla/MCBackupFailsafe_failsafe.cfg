SPECIFICATION MCSpec
CONSTANTS
    Locations = {l1, l2}
    Remotes = {u1, u2}
    Versions = {v1}
    Calls = {c1, c2}
    Push = TRUE
    MaxCalls = 3
    MaxEdits = 1
    MaxRestarts = 1
    None = None
CHECK_DEADLOCK FALSE
INVARIANTS
    WritesStayWhereAccepted
PROPERTIES
    ChecksSeeWhatIs
    AlertGoesReviewed
    AcceptedAsShown
    EveryCallEnds
