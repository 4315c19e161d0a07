SPECIFICATION FairSpec
CONSTANTS
    Items = {i1}
    Callers = {c1}
    LIMIT = 1
    MaxUndone = 0
    MaxFaults = 1
    Purgers = {p1, p2}
    Nobody = Nobody
    MAX_DAYS = 3
    MaxRequests = 1
INVARIANTS
    TypeOK
    BudgetHonoured
    DeletedOnRecord
PROPERTIES
    RefinesMutex
    DeletionCarriedOut
\* The user may be gone for good.
CHECK_DEADLOCK FALSE
