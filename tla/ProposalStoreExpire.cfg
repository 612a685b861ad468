SPECIFICATION Spec
CONSTANTS
  MaxCards = 1
  Runs = {r1}
  Decisions = {APPROVED, REJECTED}
  Snapshot = {inventory}
  Reviews = {review}
  NoReview = NoReview
  Notify = Notify
  Fleet = Fleet
  Chat = Chat
  NoRow = NoRow
  NoRun = NoRun
  DemoMode = TRUE
  MaxFaults = 0
  MaxRestarts = 0
PROPERTIES
  SweepExpiresPendingOnly
CHECK_DEADLOCK FALSE
