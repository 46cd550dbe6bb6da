SPECIFICATION Spec
CONSTANTS
  p1 = p1
  p2 = p2
  p3 = p3
  l1 = l1
  l2 = l2
  l3 = l3
  Procs <- OneProcess
  Console = console
  Libs <- OneLibrary
  Traffic <- TableTraffic
  MaxOps = 3
  StepSize = 1
  MaxLibs = 1
  MaxSettings = 1
  QueueCap = 2
  MaxSent = 6
  MaxNext = 3
  AllocMayFail = FALSE
  OpenMayFail = FALSE
SYMMETRY Interchangeable
INVARIANT NoCrash
CHECK_DEADLOCK FALSE
