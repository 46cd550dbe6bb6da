SPECIFICATION Spec
CONSTANTS
  a1 = a1
  a2 = a2
  Null = null
  Addrs <- TwoAddresses
  Traffic <- HeapTraffic
  MaxLines = 5
  MaxMarks = 1
SYMMETRY Interchangeable
INVARIANT TypeOK
INVARIANT SameObject
INVARIANT NothingLost
INVARIANT Playable
PROPERTY CleanupSpares
CHECK_DEADLOCK FALSE
