SPECIFICATION FairSpec
CONSTANTS
    Workers = {w1, w2}
    Slots = {s1, s2}
    NoSlot = NoSlot
    BUDGET = 1
    WINDOW = 1
    CADENCE = 2
    MaxFaults = 2
    LastMail = 1
    MAX_ATTEMPTS = 3
    BATCH = 1
INVARIANTS
    TypeOK
    MailedOnce
PROPERTIES
    RefinesMutex
    VerdictStands
    JobRunsAgain
    SettledStands
    MailSettles
