SPECIFICATION FairSpec
CONSTANTS
  NReaders = 1
  NWriters = 1
  MaxCalls = 1
  Faults = {"bind"}
PROPERTY
  StartAlwaysReturns
CHECK_DEADLOCK FALSE
