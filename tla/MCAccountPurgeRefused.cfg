SPECIFICATION Spec
CONSTANTS
    Items = {i1}
    Callers = {c1}
    LIMIT = 1
    MaxUndone = 0
    MaxFaults = 0
    Purgers = {p1}
    Nobody = Nobody
    MAX_DAYS = 3
    MaxRequests = 1
INVARIANT RetryNotDiscarded
\* The user may be gone for good.
CHECK_DEADLOCK FALSE
