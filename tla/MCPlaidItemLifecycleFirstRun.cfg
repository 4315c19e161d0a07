SPECIFICATION Spec
CONSTANTS
    r1 = r1
    r2 = r2
    Runs = {r1, r2}
    MaxData = 1
    MaxFaults = 1
    MaxChanges = 0
INVARIANT FirstRunHoldsMarker
SYMMETRY RunSymmetry
\* A removed or broken item may be left alone for good.
CHECK_DEADLOCK FALSE
