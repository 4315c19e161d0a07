SPECIFICATION FairSpec
CONSTANTS
    june = june
    summer = summer
    trades = trades
    e1 = e1
    e2 = e2
    t1 = t1
    LastImport = 3
    Files = {june, summer, trades}
    Histories = {trades}
    RowsOf <- MCRowsOf
    NoFile = NoFile
    CHUNK = 2
    BUDGET = 1
    SLACK = 0
    MaxFaults = 1
INVARIANTS
    TypeOK
    OneCopyPerFile
    RolledBackStaysEmpty
PROPERTIES
    VerdictsStand
    DeadImportsEnd
\* Every import may be over.
CHECK_DEADLOCK FALSE
