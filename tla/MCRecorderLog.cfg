SPECIFICATION Spec
CONSTANTS
  p1 = p1
  p2 = p2
  p3 = p3
  l1 = l1
  l2 = l2
  l3 = l3
  Procs <- OneProcess
  Console = console
  Libs <- OneLibrary
  Traffic <- LogTraffic
  MaxOps = 2
  StepSize = 1
  MaxLibs = 1
  MaxSettings = 1
  QueueCap = 1
  MaxSent = 5
  MaxNext = 3
  AllocMayFail = TRUE
  OpenMayFail = TRUE
SYMMETRY Interchangeable
INVARIANT TypeOK
INVARIANT RecordsFit
INVARIANT FilePrefix
INVARIANT HistoryExact
PROPERTY ImplementsLog
CHECK_DEADLOCK FALSE
