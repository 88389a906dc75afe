SPECIFICATION Spec
CONSTANTS
  g1 = g1
  g2 = g2
  NONE = NONE
  Days = {1, 2, 3, 4, 5, 7, 8}
  Starts = {0, 1, 3}
  Regions = {g1, g2}
  Windows = {1, 3, 5}
  MaxIterations = 8
  MaxEdits = 2
SYMMETRY RegionSymmetry
INVARIANTS
  DeadlineIsExact
CHECK_DEADLOCK FALSE
