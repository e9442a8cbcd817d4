\* Three threads at most, two clients, three jobs.
CONSTANTS
  w1 = w1
  w2 = w2
  w3 = w3
  c1 = c1
  c2 = c2
  Workers <- MCThree
  Clients <- MCClients
  Nil = Nil
  parallelism = 3
  wait_count = 1
  Circumstances <- MCSafe
  MaxJobs = 3
SPECIFICATION FairSpec
INVARIANTS IdleListExact NoStrandedJob DestroyedIsQuiet
PROPERTIES ImplementsJobBag JobsEnd StopReturns
CHECK_DEADLOCK FALSE
