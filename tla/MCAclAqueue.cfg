\* Two threads pop, two push, three items at a time.
CONSTANTS
  p1 = p1
  p2 = p2
  p3 = p3
  s1 = s1
  s2 = s2
  i1 = i1
  i2 = i2
  i3 = i3
  m1 = m1
  m2 = m2
  Poppers <- MCPoppers
  Pushers <- MCPushers
  Items <- MCItems
  Msgs <- MCMsgs
  NULL = NULL
  Nil = Nil
SPECIFICATION FairSpec
INVARIANT NoLostWakeup
PROPERTIES ImplementsMailbox PopsReturn
CHECK_DEADLOCK FALSE
