CONSTANTS
    MaxQty = 6
    MaxSteps = 3
    Weights = {0, 1, 2, 5}
    Unit = 6
    Ulp = 0
    Word = 16
SPECIFICATION Spec
INVARIANT UrgentIsFrontLoaded
CHECK_DEADLOCK FALSE
