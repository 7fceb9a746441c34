CONSTANTS
  Writers = {w1, w2}
  Readers = {r1}
  receiver = receiver
  catcher = catcher
  packet_count = 2
  accessor_buffer_size = 2
  BLOCK_SIZE = 2
  IMPLICIT_INITIAL_INDEX_SIZE = 2
  PoolBlocks = 3
  writer_retry_count = 1
  Rounds = 2
  MaxSubmitted = 14
SPECIFICATION Spec
INVARIANTS Accounted QuietShutdown
PROPERTY DriverEnds
CHECK_DEADLOCK FALSE
