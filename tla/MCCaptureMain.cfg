SPECIFICATION Spec
CONSTANTS
  t1 = t1
  t2 = t2
  a1 = a1
  l1 = l1
  l2 = l2
  Parent = parent
  Child = child
  Threads <- TwoThreads
  ChildThread = child_thread
  Addrs <- OneAddress
  Null = null
  Libs <- TwoLibraries
  NoLib = no_lib
  DynMax = 1
  MaxCalls = 3
  MaxRare = 2
  Rare <- RareCalls
  Wrapped <- AllCalls
  Lossy <- SomeLossy
SYMMETRY Interchangeable
INVARIANT TypeOK
INVARIANT FlagHeld
INVARIANT SequentialExact
INVARIANT TrueReports
INVARIANT AllocatedBeforeFreed
INVARIANT Resolvable
INVARIANT AnnouncedOnce
CHECK_DEADLOCK FALSE
