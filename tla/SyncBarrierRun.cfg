SPECIFICATION FairSpec
CONSTANTS
  Size = 2
  MaxState = 1
  MaxInc = 2
  MaxLog = 4
  AppRule = "increasing"
  FaultSets <- SpreadOrRestart
  Observers = {0}
  Goals = {1}
INVARIANTS
  TypeOK
  Truthful
PROPERTIES
  BarrierHolds
  EarlyOnlyOvertaken
  WaitReturns
CHECK_DEADLOCK FALSE
