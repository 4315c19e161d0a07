SPECIFICATION OwedSpec
CONSTANTS
    r1 = r1
    r2 = r2
    Runs = {r1, r2}
    MaxData = 1
    MaxFaults = 0
    MaxChanges = 0
PROPERTY NoLostWakeup
\* A removed or broken item may be left alone for good.
CHECK_DEADLOCK FALSE
