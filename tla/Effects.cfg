SPECIFICATION Spec
CONSTANTS
  Stores = {s1, s2}
  Suppliers = {p1, p2}
  Slots = {w1}
  Items = {i1}
  Percents = {40}
  Catalogue = 1000
  Free = Free
  MaxRowCards = 2
  MaxCards = 2
  MaxKinds = 1
  MaxPosts = 3
  MaxDays = 1
  MaxDecisions = 2
SYMMETRY Symmetry
INVARIANTS
  TypeOK
  OneDraftPerDay
  HumanInTheLoop
  OneRowPerDecision
  BookedByApprovals
  PriceWithinApprovals
PROPERTIES
  DecidedStays
CHECK_DEADLOCK FALSE
