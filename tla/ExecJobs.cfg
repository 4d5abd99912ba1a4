SPECIFICATION JobsSpec
CONSTANTS
  MaxJobs = 3
  MaxEnds = 2
  s1 = s1
  Sessions = {s1}
  Owners <- OneRun
  Owner <- ThreeOwners
  Scope <- ThreeScopes
  Timed = {2}
  Broken = {3}
  Stubborn = {2}
  Daemon = Daemon
  MaxGlobalActive = 2
  MaxSessionActive = 2
  MaxGlobalCompleted = 1
  MaxSessionCompleted = 1
INVARIANTS
  LimitsHold
  EndedIsClean
PROPERTIES
  FirstRequestWins
  RemovedForAReason
CHECK_DEADLOCK FALSE
