\* One unit at first, two more posted; fibers may be killed anywhere.
CONSTANTS
  f1 = f1
  f2 = f2
  f3 = f3
  kill = kill
  Fibers <- MCFibers
  Ready = Ready
  Dead = Dead
  Sem = Sem
  WaitRings <- MCRings
  Original = Original
  MaxCache = 0
  Signals <- MCKill
  Fatal <- MCKill
  NoSignal = NoSignal
  InitNum = 1
  MaxFresh = 2
  Checks = TRUE
SYMMETRY MCSymmetry
SPECIFICATION SemSpec
INVARIANTS SemTypeOK NoOverdraft NoIdleUnit NobodyStranded
PROPERTY UnitsConserved
