SPECIFICATION FairSpec
CONSTANTS
  Conns = {c1, c2}
  NoConn = NoConn
  MaxRuns = 2
  Msgs = {m1, m2}
  NoMsg = NoMsg
  Sizes = {1, 2}
  Slots = {t1}
  MaxMessages = 2
  MaxBytes = 3
  MaxRequests = 3
  MaxBatches = 1
INVARIANTS
  MailboxConsistent
  EndSettlesAll
PROPERTIES
  QuietWhileAsking
  KeepsItsPromise
  QueuedIsDecided
CHECK_DEADLOCK FALSE
