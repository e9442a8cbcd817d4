\* Two children at most and one spare, two connections, two deaths, one fork
\* that fails, one reload.
CONSTANTS
  p1 = p1
  p2 = p2
  p3 = p3
  p4 = p4
  Pids <- MCPids
  None = None
  Services <- MCServices
  MaxConns = 2
  MaxDeaths = 2
  MaxForkFails = 1
  MaxRestarts = 1
SPECIFICATION FairSpec
INVARIANTS CountsExact ListensExactly GossipConverges
PROPERTIES ConnsAccepted
CHECK_DEADLOCK FALSE
