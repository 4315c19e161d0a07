SPECIFICATION Spec
CONSTANTS
    t1 = t1
    t2 = t2
    t3 = t3
    p1 = p1
    p2 = p2
    NoTurn = NoTurn
    Turns <- MCTurns
    Procs <- MCProcs
    ProcessOf <- MCProcessOf
    ALLOWANCE = 2
    RESERVE = 1
    Costs = {1}
    FAILURE_TRIP = 2
    CONSECUTIVE_TRIP = 1
    DAY = 2
    LastHour = 1
    MaxFaults = 0
INVARIANTS
    SimultaneousTurnsBounded
CHECK_DEADLOCK FALSE
