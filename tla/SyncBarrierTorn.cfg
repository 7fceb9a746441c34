SPECIFICATION FairSpec
CONSTANTS
  Size = 2
  MaxState = 1
  MaxInc = 1
  MaxLog = 4
  AppRule = "increasing"
  FaultSets <- NoFaults
  Observers = {0}
  Goals = {1}
PROPERTIES
  NeverTooEarly
CHECK_DEADLOCK FALSE
