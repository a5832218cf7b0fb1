CONSTANTS
    Capacity = 2
    Word = 8
    MaxEvents = 4
    Relays = {r1, r2}
SPECIFICATION FairSpec
INVARIANTS TypeOK SingleConsumer TapeIsAccepted ProcessedIsLogged GapsAreDrops
PROPERTIES StopDrains StopReturns EventuallyLogged
CHECK_DEADLOCK FALSE
