CONSTANTS
    ParentQty = 2
    Horizon = 4
    Mid = 4
    Lifetime = 2
    Burst = 2
    Depths = {0}
    Quantities = {1, 2}
    FloatExact = 1
    Word = 8
    Capacity = 6
    Headroom = 1
    MinPrice = 0
    MaxPrice = 8
SPECIFICATION Spec
INVARIANT InventoryExact
