SPECIFICATION Spec
CONSTANTS
  Rows = {r1}
  Phrases = {1, 2}
  Outside = {"campaign", "execute"}
  NoCard = NoCard
  MaxCalls = 3
  MaxTurn = 2
SYMMETRY Symmetry
INVARIANTS
  TypeOK
  NothingEmptyIsPlaced
  DraftsStandOnReads
CHECK_DEADLOCK FALSE
