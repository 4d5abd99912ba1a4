SPECIFICATION Spec
CONSTANTS
  Conns = {c1, c2}
  NoConn = NoConn
  MaxRuns = 2
  MaxAsks = 2
  MaxRounds = 2
  MaxRequests = 4
  Buffer = 2
SYMMETRY Symmetry
INVARIANTS
  RunIsTold
  WorkIsExclusive
  QuestionsAreKept
CHECK_DEADLOCK FALSE
