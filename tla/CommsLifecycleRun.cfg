SPECIFICATION FairSpec
CONSTANTS
  NReaders = 1
  NWriters = 2
  MaxCalls = 1
  Faults = {"bind", "spurious"}
INVARIANTS
  Served
  StopsInOrder
  ReliedOnIsUp
PROPERTIES
  StartReturns
  ShutdownReturns
CHECK_DEADLOCK FALSE
