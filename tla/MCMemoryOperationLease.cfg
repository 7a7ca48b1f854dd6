SPECIFICATION FairLeaseSpec
CONSTANTS
    Clients <- MCClients
    States = {s1, s2}
    NoState = NoState
INVARIANTS
    RecoveryRunsAlone
PROPERTIES
    NoOvertaking
    EveryWaiterIsGranted
