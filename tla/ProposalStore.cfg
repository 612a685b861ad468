SPECIFICATION Spec
CONSTANTS
  MaxCards = 2
  Runs = {r1, r2}
  Decisions = {APPROVED, REJECTED}
  Snapshot = {inventory}
  Reviews = {review}
  NoReview = NoReview
  Notify = Notify
  Fleet = Fleet
  Chat = Chat
  NoRow = NoRow
  NoRun = NoRun
  DemoMode = TRUE
  MaxFaults = 0
  MaxRestarts = 0
SYMMETRY Symmetry
VIEW WithoutOlder
INVARIANTS TypeOK
PROPERTIES
  CommitLeavesOnlyItsCards
  OwnCardsSurvive
  SupersedeSparesDecisions
  ChatDecidesOpenCards
CHECK_DEADLOCK FALSE
