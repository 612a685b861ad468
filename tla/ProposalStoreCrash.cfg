SPECIFICATION Spec
CONSTANTS
  MaxCards = 1
  Runs = {r1}
  Decisions = {APPROVED}
  Snapshot = {inventory}
  Reviews = {}
  NoReview = NoReview
  Notify = Notify
  Fleet = Fleet
  Chat = Chat
  NoRow = NoRow
  NoRun = NoRun
  DemoMode = FALSE
  MaxFaults = 2
  MaxRestarts = 2
INVARIANTS AnswersOnFile
PROPERTIES AgedCardsClose DurableCards
CHECK_DEADLOCK FALSE
