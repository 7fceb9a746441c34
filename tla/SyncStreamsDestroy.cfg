SPECIFICATION StreamsFairSpec
CONSTANT
  MaxUpdates = 3
INVARIANTS
  Orderly
  SafeToDelete
PROPERTIES
  KeepAliveGoesOn
  DestroyEnds
CHECK_DEADLOCK FALSE
