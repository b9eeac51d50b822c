SPECIFICATION Spec
CONSTANTS
    Threads = {t1, t2}
    FirstPage = 1
    LastPage = 5
    TablePages = 2
    NumFrames = 4
    NodeIds = {1, 2}
    LocalRequests <- MCStraddling
    GlobalRequests <- MCStraddling
    MaxCommit = 2
    Anywhere = Anywhere
    Frameless = Frameless
SYMMETRY Symmetry
INVARIANT MappedInside
