CONSTANTS
    Capacity = 3
    MinPrice = 1
    MaxPrice = 3
    Prices = {1, 2, 3, 4}
    Quantities = {1, 2}
    MaxOrders = 4
SPECIFICATION Spec
INVARIANTS TypeOK LevelsExact TouchExact BlocksPartitioned NotCrossed
PROPERTY ImplementsBookSpec
