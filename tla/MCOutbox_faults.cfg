SPECIFICATION FairSpec
CONSTANTS
  e1 = e1
  e2 = e2
  e3 = e3
  c1 = c1
  c2 = c2
  NONE = NONE
  Events = {e1, e2}
  Style <- Mixed
  Runs = {c1, c2}
  TakeLimit = 1
  FaultKinds = {"database", "answer", "send", "producer", "act", "record", "consumer"}
  MaxFaults = 2
INVARIANTS
  TypeOK
  NothingSlips
PROPERTIES
  ExactlyOnce
  EveryEventTakesEffect
CHECK_DEADLOCK FALSE
