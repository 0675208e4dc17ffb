\* Two runs, of a tool the caller may not use and of one nobody registered.
CONSTANTS
  r1 = r1  r2 = r2  search = search  delete = delete  missing = missing
  None = None
  Tools <- AllTools
  Registered <- TheApplications
  ActionTools <- Deletes
  Runs <- TwoRuns
  Requests <- OneRequest
  Definitions <- TwoTools
  MaxTurnsCeiling = 1
  TimeoutCeiling = 1
  MaxTime = 2
SPECIFICATION Spec
INVARIANTS StatusesTellApart
CHECK_DEADLOCK FALSE
