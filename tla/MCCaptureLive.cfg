SPECIFICATION FairSpec
CONSTANTS
  t1 = t1
  t2 = t2
  a1 = a1
  l1 = l1
  l2 = l2
  Parent = parent
  Child = child
  Threads <- TwoThreads
  ChildThread = child_thread
  Addrs <- OneAddress
  Null = null
  Libs <- OneLibrary
  NoLib = no_lib
  DynMax = 1
  MaxCalls = 3
  MaxRare = 2
  Rare <- RareCalls
  Wrapped <- LiveCalls
  Lossy <- NoneLossy
PROPERTY HearsAgain
PROPERTY CallsReturn
CHECK_DEADLOCK FALSE
