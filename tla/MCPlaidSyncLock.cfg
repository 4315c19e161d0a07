SPECIFICATION Spec
CONSTANTS
    r1 = r1
    r2 = r2
    r3 = r3
    Runs = {r1, r2, r3}
    LOCK_TTL = 2
    MaxDuration = 4
    MaxTime = 6
SYMMETRY RunSymmetry
INVARIANTS
    TypeOK
    LeaseExclusive
PROPERTIES
    LeaseUndisturbed
    RefinesMutex
