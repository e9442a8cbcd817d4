\* A fiber may be killed while it is blocked.
CONSTANTS
  f1 = f1
  f2 = f2
  f3 = f3
  kill = kill
  Fibers <- MCFibers
  Ready = Ready
  Dead = Dead
  WaitRings <- MCNone
  Original = Original
  MaxCache = 0
  Signals <- MCKill
  Fatal <- MCKill
  NoSignal = NoSignal
  Sizes <- MCNoBuffer
  MaxMsgs = 2
SPECIFICATION ChanSpec
INVARIANTS QueuedAreSuspended
