SPECIFICATION Spec
CONSTANTS
  Stores = {s1}
  Suppliers = {p1}
  Slots = {w1}
  Items = {i1}
  Percents = {40}
  Catalogue = 1000
  Free = Free
  MaxRowCards = 1
  MaxCards = 1
  MaxKinds = 1
  MaxPosts = 1
  MaxDays = 0
  MaxDecisions = 1
PROPERTIES
  ApprovedPriceTakesEffect
CHECK_DEADLOCK FALSE
