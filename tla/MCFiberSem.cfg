\* One unit, posted by somebody who held none; fibers may be killed anywhere.
CONSTANTS
  f1 = f1
  f2 = f2
  f3 = f3
  kill = kill
  Fibers <- MCFibers
  Ready = Ready
  Dead = Dead
  Sem = Sem
  WaitRings <- MCRings
  Original = Original
  MaxCache = 0
  Signals <- MCKill
  Fatal <- MCKill
  NoSignal = NoSignal
  InitNum = 0
  MaxFresh = 1
  Checks = TRUE

SPECIFICATION SemFairSpec
INVARIANTS NoIdleUnit NobodyStranded
PROPERTIES UnitsConserved WaiterServed
