SPECIFICATION FairSpec
CONSTANTS
  Candidates = {c1, c2}
  Models = {m1, m2}
  NoRef = NoRef
  MaxAttempts = 2
  BatchSize = 2
  MaxActive = 1
  MaxStops = 1
  MaxFaults = 1
INVARIANTS
  TableIsKept
  RemovedStays
PROPERTIES
  KeepsItsPromise
  CandidateSettles
CHECK_DEADLOCK FALSE
