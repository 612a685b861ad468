SPECIFICATION Spec
CONSTANTS
  Runs = {r1, r2, r3}
  Agents = {a1, a2}
  Garbage = Garbage
  NoEntry = NoEntry
  MaxFaults = 1
  MaxMisreads = 1
  MaxRestarts = 2
  MaxEdits = 1
  MaxDeletes = 2
SYMMETRY Symmetry
INVARIANTS
  TypeOK
  ChainVerifies
  EditShows
  ReportMatchesFile
  LastRunIsLatest
CHECK_DEADLOCK FALSE
