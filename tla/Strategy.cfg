CONSTANTS
    MaxQty = 4
    MaxSteps = 3
    Weights = {0, 1, 2, 5}
    Unit = 6
    Ulp = 1
    Word = 16
SPECIFICATION Spec
INVARIANTS TypeOK SentPlusRemaining ErrorsDoNotAccumulate
CHECK_DEADLOCK FALSE
