\* One run, with and without a tracer: limits from every side, every refusal and
\* every fault; the clock and the timers alone end it.
CONSTANTS
  r1 = r1  r2 = r2  search = search  delete = delete  missing = missing
  None = None
  Tools <- AllTools
  Registered <- TheApplications
  ActionTools <- Deletes
  Runs <- OneRun
  Requests <- ManyRequests
  Definitions <- ManyDefinitions
  MaxTurnsCeiling = 2
  TimeoutCeiling = 3
  MaxTime = 4
SPECIFICATION LiveSpec
INVARIANTS TypeOK TurnsAreBounded TracesAreFlushed
PROPERTIES NothingOutlastsTheDeadline NothingComesOfALateRun RunsEnd
CHECK_DEADLOCK FALSE
