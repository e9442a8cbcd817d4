\* No buffer, or a buffer of one or two messages, which wraps: five messages.
CONSTANTS
  f1 = f1
  f2 = f2
  f3 = f3
  kill = kill
  Fibers <- MCFibers
  Ready = Ready
  Dead = Dead
  WaitRings <- MCNone
  Original = Original
  MaxCache = 0
  Signals <- MCNone
  Fatal <- MCNone
  NoSignal = NoSignal
  Sizes <- MCSizes
  MaxMsgs = 5
SYMMETRY MCSymmetry
SPECIFICATION ChanSpec
INVARIANTS FifoDelivery NobodyBlockedNeedlessly QueuedAreSuspended DeliveredOnce
