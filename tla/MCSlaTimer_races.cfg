SPECIFICATION Spec
CONSTANTS
  k1 = k1
  k2 = k2
  s1 = s1
  s2 = s2
  x1 = x1
  t1 = t1
  t2 = t2
  t3 = t3
  c1 = c1
  c2 = c2
  r1 = r1
  NONE = NONE
  Keys = {k1}
  TimerIds = {t1, t2}
  StartEvents = {s1}
  CancelEvents = {x1}
  KeyOf <- OneKey
  Requests = {r1}
  CronRuns = {c1, c2}
  Windows = {1}
  TakeLimit = 1
  MaxNow = 2
  MaxFaults = 1
SYMMETRY Symmetry
INVARIANTS
  TypeOK
  ClockIsTruthful
PROPERTIES
  TimersOnlyStop
  ImplementsClock
