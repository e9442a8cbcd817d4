\* A service of two preforked children, whose first fork may fail.
CONSTANTS
  p1 = p1
  p2 = p2
  p3 = p3
  p4 = p4
  Pids <- MCPids
  None = None
  Services <- MCPreforks
  MaxConns = 2
  MaxDeaths = 2
  MaxForkFails = 1
  MaxRestarts = 1
SPECIFICATION Spec
INVARIANT NeverPanics
CHECK_DEADLOCK FALSE
