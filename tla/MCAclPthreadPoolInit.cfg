\* The threads may fail in worker_init_fn while the pool is being stopped.
CONSTANTS
  w1 = w1
  w2 = w2
  w3 = w3
  c1 = c1
  c2 = c2
  Workers <- MCWorkers
  Clients <- MCClients
  Nil = Nil
  parallelism = 2
  wait_count = 1
  Circumstances <- MCInit
  MaxJobs = 2
SPECIFICATION FairSpec

PROPERTY StopAlwaysReturns
CHECK_DEADLOCK FALSE
