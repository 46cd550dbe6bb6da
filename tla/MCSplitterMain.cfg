SPECIFICATION Spec
CONSTANTS
  p1 = p1
  p2 = p2
  p3 = p3
  Nobody = nobody
  Procs <- ThreeProcesses
  MaxLibs = 2
  MaxLines = 5
SYMMETRY Interchangeable
INVARIANT TypeOK
INVARIANT SplitByPid
INVARIANT FailsIfLate
CHECK_DEADLOCK FALSE
