SPECIFICATION Spec
CONSTANTS
  Configurations <- MCConfigurations
  packet_count = 2
  send_batch_dequeue = 2
  Preload = 2
  MaxSent = 3
INVARIANT OneOwner
PROPERTIES ComesBack EndsUnless
CHECK_DEADLOCK FALSE
