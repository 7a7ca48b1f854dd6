SPECIFICATION Spec
CONSTANTS
    Leases = {l1, l2, l3}
    Resources = {a, b}
    MaxTries = 2
    MaxBorrows = 1
    MaxFaults = 1
    None = None
SYMMETRY Symmetry
CHECK_DEADLOCK FALSE
INVARIANTS
    OneOwner
    OwnerIsRecorded
PROPERTIES
    AdmissionIsKept
