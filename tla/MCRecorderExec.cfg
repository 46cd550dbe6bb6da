SPECIFICATION Spec
CONSTANTS
  p1 = p1
  p2 = p2
  p3 = p3
  l1 = l1
  l2 = l2
  l3 = l3
  Procs <- TwoProcesses
  Console = console
  Libs <- ThreeLibraries
  Traffic <- ExecTraffic
  MaxOps = 3
  StepSize = 1
  MaxLibs = 2
  MaxSettings = 1
  QueueCap = 1
  MaxSent = 6
  MaxNext = 2
  AllocMayFail = FALSE
  OpenMayFail = FALSE
SYMMETRY Interchangeable
 
INVARIANT LibsOnce
 
CHECK_DEADLOCK FALSE
