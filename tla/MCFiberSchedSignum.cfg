\* A fiber asks for the signal number of another one.
CONSTANTS
  f1 = f1
  f2 = f2
  f3 = f3
  Fibers <- MCFibers
  Ready = Ready
  Dead = Dead
  WaitRings <- MCRings
  Original = Original
  MaxCache = 0
  kill = kill
  Lock = Lock
  Signals <- MCSignals
  Fatal <- MCSignals
  NoSignal = NoSignal
SPECIFICATION Spec
INVARIANT SignumReported
