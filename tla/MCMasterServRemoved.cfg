\* A preforked service that is removed from the configuration.
CONSTANTS
  p1 = p1
  p2 = p2
  p3 = p3
  p4 = p4
  Pids <- MCPids
  None = None
  Services <- MCRemoved
  MaxConns = 2
  MaxDeaths = 2
  MaxForkFails = 1
  MaxRestarts = 1
SPECIFICATION Spec
INVARIANT StoppedIsEmpty
CHECK_DEADLOCK FALSE
