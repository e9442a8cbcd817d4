\* Fibers signal each other while they wait for descriptors, and go on.
CONSTANTS
  f1 = f1
  f2 = f2
  f3 = f3
  a = a
  b = b
  kill = kill
  Io = Io
  Fibers <- MCFibers2
  Ready = Ready
  Dead = Dead
  Timer = Timer
  WaitRings <- MCRings
  Original = Original
  MaxCache = 0
  Signals <- MCKill
  Fatal <- MCNone
  NoSignal = NoSignal
  Fds <- MCFds
  MaxDelay = 2
  NoFiber = NoFiber
  Careful = FALSE
SPECIFICATION IoSpec
INVARIANT RingsWellFormed

