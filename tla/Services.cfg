SPECIFICATION Spec
CONSTANTS
  Loops = {t1, t2}
  Callers = {t3}
  MaxConn = 1
  Monitored = {"engine"}
  Critical = {"engine"}
  max_restarts = 2
  FailuresToAlert = 2
  Admins = {a1, a2}
  Components = {"engine", "bot"}
  Tasks = 3
  Done = 2
  MaxWrites = 2
  MaxVersions = 1
  MaxPools = 2
  MaxStarts = 2
  MaxFaults = 2
  MaxLines = 2
  MaxErrors = 1
  MaxLosses = 1
  MaxRuns = 1
  MaxEnds = 1
INVARIANTS CopiesAreExplained NothingIsLost ThreadsAreCounted
PROPERTIES ServicesSettle
CHECK_DEADLOCK FALSE
