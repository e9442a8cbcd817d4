\* Three blocks, a cache of one dead fiber, one waiting ring, fibers kill each other.
CONSTANTS
  f1 = f1
  f2 = f2
  f3 = f3
  Fibers <- MCFibers
  Ready = Ready
  Dead = Dead
  WaitRings <- MCRings
  Original = Original
  MaxCache = 1
  kill = kill
  Lock = Lock
  Signals <- MCSignals
  Fatal <- MCSignals
  NoSignal = NoSignal
SPECIFICATION FairSpec
INVARIANTS RingsWellFormed RingsComplete RingsMatchStatus TableExact
PROPERTIES ImplementsRunQueue ReadyRuns
