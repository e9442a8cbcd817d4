\* Clients that use only the try functions.
CONSTANTS
  f1 = f1
  f2 = f2
  f3 = f3
  Fibers <- MCFibers
  Ready = Ready
  Dead = Dead
  WaitRings <- MCRings
  Original = Original
  MaxCache = 0
  Signals <- MCNone
  Fatal <- MCNone
  NoSignal = NoSignal
  RWaiting = RWaiting
  WWaiting = WWaiting
  MaxReaders = 3
SPECIFICATION RwTrySpec
INVARIANTS RwExclusion
