SPECIFICATION KernelSpec
CONSTANTS
    VmmDomains = {global, user}
    Local = user
    BaseVpn <- MCBase
    LimitVpn <- MCLimit
    Premapped <- MCPremapped
    EarlyCount = 1
    SlabNodes = 2
    MaxSlabs = 1
    NodeWatermark = 0
    VmmRequests <- MCVmmRequests
    Up = Up
    Down = Down
    Nil = Nil
    TopOrder = 3
    EntryPages = 2
    TableEntries = 2
    TableCount = 2
    MaxMarks = 3
    LastNode = 8
    LastPid = 2
    HandleSpan = 2
    IntMax = 15
    Ending = {1}
    Budgets = {4, 12}
    Capacities = {2}
    PathsOf <- MCPaths
    PageBits = 3
    MinAlignBits = 1
    MantissaBits = 2
    SubpoolPages = 2
    HeaderBytes = 2
    WordBits = 2
    WordBytes = 1
    TableSize = 3
    SubpoolIds = {1, 2, 3}
    LargeIds = {1, 2}
    ta = ta
    tb = tb
    PoolThreads = {ta, tb}
    Loads <- MCLoads
  sci = sci
  CtxMain = 0
  CtxKernel = {1}
  CtxUser = {2, 3}
  CtxStacks = {1, 2}
  CtxCacheMax = 1
  CtxBase = 5
  CtxLoads <- MCCtxLoads
  CtxHandlers = {sci}
INVARIANTS
    VmmExact
    BuddyExact
    BootExact
    
    ListingExact
    
    
PROPERTIES
    ImplementsReservations
CHECK_DEADLOCK FALSE
