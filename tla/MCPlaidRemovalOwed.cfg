SPECIFICATION FairRemovalSpec
CONSTANTS
    Items = {i1}
    Callers = {c1}
    LIMIT = 1
    MaxUndone = 0
    MaxFaults = 2
PROPERTY OwedSettles
\* Everything may be removed and settled.
CHECK_DEADLOCK FALSE
