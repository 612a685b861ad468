SPECIFICATION Spec
CONSTANTS
  Agent = "inventory_reorder"
  Targets = {t1, t2}
  Runs = {r1, r2}
  PreferModel = TRUE
  MaxCalls = 2
  OpenAfter = 1
  Window = 1
  Ttl = 6
  MaxNow = 1
  MaxFaults = 1
  MaxRestarts = 1
SYMMETRY Symmetry
INVARIANTS
  TypeOK
  OneDraftPerKey
  NoTwinCards
  FallbackDraftsHaveCards
  NoRunHangs
PROPERTIES
  CircuitStaysOpen
  RunsAdvance
CHECK_DEADLOCK FALSE
