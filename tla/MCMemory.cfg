SPECIFICATION Spec
CONSTANTS
    Threads = {t1, t2}
    FirstPage = 1
    LastPage = 5
    TablePages = 5
    NumFrames = 4
    NodeIds = {1, 2}
    LocalRequests <- MCLocal
    GlobalRequests <- MCGlobal
    MaxCommit = 2
    Anywhere = Anywhere
    Frameless = Frameless
SYMMETRY Symmetry
INVARIANTS
    RangesExact
    MappedInside
    
    
