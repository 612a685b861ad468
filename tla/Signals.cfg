SPECIFICATION Spec
CONSTANTS
    Guests = {g1, g2}
    Items = {i1, i2, i3}
    Overload = 2
    Underload = 2
    CloseHour = 2
    MinLead = 2
    PerDay = 4
    Fit = 1
    Inactive = 2
    Lookback = 4
    MinOrders = 1
    Days = 2
    TopLimit = 1
    SlowLimit = 1
    Start = 5
    MaxTime = 6
    MaxSeed = 3
    MaxOrders = 3
    MaxSold = 2
    MaxStaff = 5
    MaxSlots = 5
    SqlLimit = 1
    MaxWeight = 2
    Past = {0, 2, 4}
    Sites = {TRUE, FALSE}
    Paths = {"rules", "gate"}
SYMMETRY GuestSymmetry
CHECK_DEADLOCK FALSE
INVARIANTS
    DiscountMeansQuiet
    DiscountSparesSellers
    SegmentsAgree
    SeriesAccounts
    BriefIsNeverBlank
    RostersFair
