SPECIFICATION Spec
CONSTANTS
    EntryOrder = 1
    TableOrder = 1
    Tables = 3
    HintFloor = 0
    MaxOrder = 3
    EarlyTables = 3
    LowWatermark = 0
    Below <- MCBelow
    Holes <- MCHoles
    Owners = {o1}
    NoOwner = NoOwner
    Requests <- MCRequests
    MaxRef = 2
    MaxRuns = 3
    MaxEarly = 3
INVARIANTS
    NoDoubleAllocation
    AccountingExact
    FreeingSound
CHECK_DEADLOCK FALSE
