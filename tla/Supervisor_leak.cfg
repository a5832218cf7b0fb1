CONSTANTS
    Window = 5
    Threshold = 1
    Patience = 2
    Cycles = {2, 3}
    Sizes = {0, 1, 2}
    Rewards = {1, 2}
    StaleSteps = {1, 2}
    MaxEvals = 3
SPECIFICATION Spec
INVARIANT LeakIsKilled
CHECK_DEADLOCK FALSE
