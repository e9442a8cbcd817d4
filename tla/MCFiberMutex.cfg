\* One lock, fibers may be killed anywhere, callers check for it.
CONSTANTS
  f1 = f1
  f2 = f2
  f3 = f3
  kill = kill
  l1 = l1
  l2 = l2
  Fibers <- MCFibers
  Ready = Ready
  Dead = Dead
  WaitRings <- MCOneLock
  Original = Original
  MaxCache = 0
  Signals <- MCKill
  Fatal <- MCKill
  NoSignal = NoSignal
  Checks = TRUE
SPECIFICATION MutexFairSpec
INVARIANTS HolderOwns NoLostWaiter
PROPERTIES ImplementsFifoLocks WaiterServed
