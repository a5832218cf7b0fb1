CONSTANTS
    Capacity = 2
    Word = 8
    Value = {v0, v1, v2}
    Zero = v0
SPECIFICATION Spec
INVARIANTS ViewsOrdered NoDataRace SizeApproxBounds
PROPERTY ImplementsLossyQueue
