CONSTANTS
    Capacity = 4
    Headroom = 1
    MinPrice = 1
    MaxPrice = 3
    Prices = {1, 2, 3}
    Quantities = {1, 2}
    MaxOrders = 5
SPECIFICATION FairSpec
INVARIANTS NeverRejected OpenTracked ShadowExact
PROPERTY EvictionMakesRoom
CHECK_DEADLOCK FALSE
