SPECIFICATION Spec
CONSTANTS
    Clients = {c1, c2}
    Stores = {s1, s2}
    OldStores = {s1}
    NewStores = {s2}
    Requests = {r1, r2, r3}
    Budget = 1
    Window = 2
    CacheTTL = 1
    SessionTTL = 2
    Keep = 3
    MaxTime = 2
SYMMETRY RequestSymmetry
CHECK_DEADLOCK FALSE
INVARIANTS
    WindowBound
PROPERTIES
    RefusalsDeserved
    VerdictsOnceFetched
    HistoryFollowsTalk
