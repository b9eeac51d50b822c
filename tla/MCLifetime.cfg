SPECIFICATION Spec
CONSTANTS
    Users = {u1, u2}
    Kernels = {k1}
    None = None
    KStackPages = 1
    UStackPages = 1
    OwnerPages <- MCOwnerPages
    MaxPending = 3
    Budget = 2
SYMMETRY Symmetry
INVARIANTS
    CountsExact
    NothingDangles
    NothingLeaks
