SPECIFICATION FairSpec
CONSTANTS
  Conns = {c1, c2}
  NoConn = NoConn
  MaxRuns = 1
  MaxAsks = 1
  MaxRounds = 2
  MaxRequests = 4
  Buffer = 2
PROPERTIES
  CancelTakesEffect
  OrphanedQuestionEnds
  SessionIsGivenBack
CHECK_DEADLOCK FALSE
