SPECIFICATION Spec
CONSTANTS
  Daemons = {d1, d2, d3}
  Launchers = {l1}
  Servers = {s1}
  Stoppers = {k1}
  None = None
  MaxStops = 1
  MaxFaults = 1
INVARIANTS
  OneServes
  PIDIsRight
  FailsForAReason
SYMMETRY Symmetry
CHECK_DEADLOCK FALSE
