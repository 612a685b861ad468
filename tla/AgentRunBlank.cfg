SPECIFICATION Spec
CONSTANTS
  Agent = "inventory_reorder"
  Targets = {t1}
  Runs = {r1}
  PreferModel = TRUE
  MaxCalls = 2
  OpenAfter = 3
  Window = 1
  Ttl = 6
  MaxNow = 0
  MaxFaults = 0
  MaxRestarts = 0
INVARIANT FallbackIsNeverBlank
CHECK_DEADLOCK FALSE
