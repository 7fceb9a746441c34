CONSTANTS
  Nodes = {n1, n2}
  Threads = {t1, t2, t3}
  NoNode = NoNode
  Should = 8
SPECIFICATION Spec
INVARIANTS OnlyOnce NothingLost
PROPERTY LockFree
