SPECIFICATION FairSpec
CONSTANTS
  o1 = o1
  o2 = o2
  x = x
  y = y
  z = z
  w1 = w1
  w2 = w2
  NONE = NONE
  AppIds = {1, 2}
  Organisations = {o1, o2}
  Payloads = {x, y}
  Complete = {x}
  Workers = {w1}
  TakeLimit = 2
  MaxFaults = 1
INVARIANTS
  VerdictStands
  OneCurrentPerOrganisation
PROPERTIES
  LifecycleIsFollowed
  SubmittedIsScored
  SubmittedIsFrozen
CHECK_DEADLOCK FALSE
