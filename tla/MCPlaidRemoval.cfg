SPECIFICATION FairRemovalSpec
CONSTANTS
    Items = {i1, i2}
    Callers = {c1, c2}
    LIMIT = 1
    MaxUndone = 1
    MaxFaults = 2
INVARIANTS
    RemovalTypeOK
    CredentialKept
    NothingForgotten
PROPERTY BillingStops
\* Everything may be removed and settled.
CHECK_DEADLOCK FALSE
