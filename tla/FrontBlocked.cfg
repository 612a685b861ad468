SPECIFICATION Spec
CONSTANTS
    Clients = {c1}
    Stores = {s1, s2}
    OldStores = {s1}
    NewStores = {s2}
    Requests = {r1, r2}
    Budget = 2
    Window = 2
    CacheTTL = 1
    SessionTTL = 2
    Keep = 3
    MaxTime = 1
SYMMETRY RequestSymmetry
CHECK_DEADLOCK FALSE
PROPERTIES
    TroubleNeverBlocks
