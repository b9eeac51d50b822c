SPECIFICATION Spec
CONSTANTS
    EntryOrder = 1
    TableOrder = 1
    Tables = 3
    HintFloor = 0
    MaxOrder = 3
    EarlyTables = 4
    LowWatermark = 1
    Below <- MCBelow
    Holes <- MCHoles
    Owners = {o1}
    NoOwner = NoOwner
    Requests <- MCSmallRequests
    MaxRef = 2
    MaxRuns = 8
    MaxEarly = 4
INVARIANT NoDoubleAllocation
CHECK_DEADLOCK FALSE
