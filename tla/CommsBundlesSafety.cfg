SPECIFICATION Spec
CONSTANTS
  p1 = p1
  p2 = p2
  p3 = p3
  a1 = a1
  a2 = a2
  w1 = w1
  w2 = w2
  Packets = {p1, p2, p3}
  Accessors = {a1, a2}
  Writers = {w1}
  EndPoints = {0, 1}
  BundleSize = 2
  SubmitCap = 1
  ReapCap = 2
  RetryCount = 0
  ShutdownRule = "any"
  NoOne = NoOne
  Owner <- SplitOwner
INVARIANTS
  TypeOK
  Kept
  StaysHome
  OnePlace
  HeaderIsValid
PROPERTIES
  LedgerSpec
SYMMETRY Twins
