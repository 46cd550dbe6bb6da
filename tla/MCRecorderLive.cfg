SPECIFICATION FairSpec
CONSTANTS
  p1 = p1
  p2 = p2
  p3 = p3
  l1 = l1
  l2 = l2
  l3 = l3
  Procs <- OneProcess
  Console = console
  Libs <- OneLibrary
  Traffic <- LiveTraffic
  MaxOps = 3
  StepSize = 1
  MaxLibs = 1
  MaxSettings = 1
  QueueCap = 2
  MaxSent = 4
  MaxNext = 2
  AllocMayFail = FALSE
  OpenMayFail = FALSE
PROPERTY EveryMessageHandled
PROPERTY SaveAnswered
CHECK_DEADLOCK FALSE
