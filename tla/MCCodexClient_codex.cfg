SPECIFICATION FairSpec
CONSTANTS
    Kinds = {"translation", "conversation"}
    MaxCalls = 2
    MaxSockets = 2
    MaxRequests = 13
    None = None
CHECK_DEADLOCK FALSE
INVARIANTS
    AnswerIsOwn
    CloseReachesEveryone
PROPERTIES
    CompletionIsNotMissed
    EveryCallEnds
