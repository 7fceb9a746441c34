SPECIFICATION FairSpec
CONSTANTS
  p1 = p1
  p2 = p2
  p3 = p3
  a1 = a1
  a2 = a2
  w1 = w1
  w2 = w2
  Packets = {p1, p2}
  Accessors = {a1}
  Writers = {w1, w2}
  EndPoints = {0}
  BundleSize = 2
  SubmitCap = 1
  ReapCap = 2
  RetryCount = 1
  ShutdownRule = "any"
  NoOne = NoOne
  Owner <- AllFirst
PROPERTIES
  CallsReturn
  DepositComesBack
