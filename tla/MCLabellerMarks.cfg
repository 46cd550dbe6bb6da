SPECIFICATION FairSpec
CONSTANTS
  a1 = a1
  a2 = a2
  Null = null
  Addrs <- TwoAddresses
  Traffic <- MarkTraffic
  MaxLines = 4
  MaxMarks = 3
INVARIANT MarksLand
PROPERTY RefineEnds
CHECK_DEADLOCK FALSE
