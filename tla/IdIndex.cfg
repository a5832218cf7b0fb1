CONSTANTS
    Size = 8
    MaxLive = 4
    Homes = {6, 7, 0}
    Id = {a, b, c, d}
    Ptr = {p}
    Null = null
SPECIFICATION FairSpec
INVARIANTS TypeOK OneSlotPerId NoOrphans
PROPERTIES ImplementsIdMap CallsReturn
