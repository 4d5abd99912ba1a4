SPECIFICATION Spec
CONSTANTS
  Conns = {c1, c2, c3}
  Sessions = {s1, s2}
  Models = {m1, m2}
  DefaultModel = m1
  NoConn = NoConn
  NoSession = NoSession
  Legacy = Legacy
  Absent = Absent
  Failures = {"create", "get", "bind", "load", "update", "persist"}
  MaxRequests = 5
SYMMETRY Symmetry
INVARIANTS
  Membership
  HoldsCounted
  NoRuntimeWithoutRow
PROPERTIES
  UsedRuntimeStays
CHECK_DEADLOCK FALSE
