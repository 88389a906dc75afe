SPECIFICATION MCSpec
CONSTANTS
  r1 = r1
  r2 = r2
  NONE = NONE
  Parameters <- SeedParameters
  SubParameters <- SeedSubParameters
  ParameterOf <- SeedParameterOf
  Worth <- SeedWorth
  MetByZero <- SeedMetByZero
  Low <- SeedLow
  Medium <- SeedMedium
  High <- SeedHigh
  Cap = 10001
  MayComeLate = TRUE
  Runs = {r1, r2}
  Modes = {"serial", "retries", "overlap"}
  Reports <- AnyReport
  SerialReports <- Complete
  MaxFaults = 2
INVARIANTS
  TypeOK
  LeavesNothingOut
  VerdictIsRight
PROPERTIES
  IsScored
CHECK_DEADLOCK FALSE
