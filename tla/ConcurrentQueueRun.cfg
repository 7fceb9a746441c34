CONSTANTS
  Producers = {p}
  Consumers = {c1, c2}
  Blocks = {b1, b2, b3}
  NoBlock = NoBlock
  BLOCK_SIZE = 2
  EXPLICIT_INITIAL_INDEX_SIZE = 2
  IMPLICIT_INITIAL_INDEX_SIZE = 2
  Sizes = {1, 3}
  MaxElements = 7
  MaxOver = 1
SPECIFICATION Spec
INVARIANTS NeverOverdrawn RightElement OneOwner Settles
CHECK_DEADLOCK FALSE
SYMMETRY Symmetry
