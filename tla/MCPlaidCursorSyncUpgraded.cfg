SPECIFICATION FairSpec
CONSTANTS
    a1 = a1
    a2 = a2
    x = x
    f1 = f1
    f2 = f2
    NoTxn = NoTxn
    NoAccount = NoAccount
    NoRow = NoRow
    NoCursor = NoCursor
    Txns = {a1, a2}
    Accounts = {x}
    FinancialAccounts = {f1, f2}
    HomeOf <- MCHomeOf
    Event <- MCEvent
    Fingerprint <- MCFingerprint
    PendingRef <- MCPendingRef
    AccountOf <- MCAccountOf
    MAX_PAGINATION_RESTARTS = 1
    PageSize = 2
    Upgraded = TRUE
    MaxLog = 4
    MaxFaults = 2
PROPERTY
    CaughtUp
