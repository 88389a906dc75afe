SPECIFICATION Spec
CONSTANTS
  o1 = o1
  o2 = o2
  x = x
  y = y
  z = z
  w1 = w1
  w2 = w2
  NONE = NONE
  AppIds = {1}
  Organisations = {o1}
  Payloads = {x, y}
  Complete = {x}
  Workers = {w1, w2}
  TakeLimit = 1
  MaxFaults = 1
SYMMETRY WorkerSymmetry
INVARIANTS
  TypeOK
  RecordsAgree
CHECK_DEADLOCK FALSE
