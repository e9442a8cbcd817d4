\* Two fibers beside the one that polls, two sockets, sleeps of 1 and 2.
CONSTANTS
  f1 = f1
  f2 = f2
  f3 = f3
  a = a
  b = b
  kill = kill
  Io = Io
  Fibers <- MCFibers2
  Ready = Ready
  Dead = Dead
  Timer = Timer
  WaitRings <- MCRings
  Original = Original
  MaxCache = 0
  Signals <- MCKill
  Fatal <- MCNone
  NoSignal = NoSignal
  Fds <- MCFds
  MaxDelay = 2
  NoFiber = NoFiber
  Careful = TRUE
SPECIFICATION IoFairSpec
INVARIANTS DefersExact WatchedExactly
PROPERTIES SleptEnough WaitersWoken
