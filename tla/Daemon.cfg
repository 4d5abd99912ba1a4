CONSTANTS
  LocalClients = {l1}
  TcpClients = {t1}
  MaxHalts = 1
  Policies <- MCPolicies
SPECIFICATION DaemonSpec
INVARIANTS NoLastingClientStopped
PROPERTIES DaemonEnds
CHECK_DEADLOCK FALSE
