CONSTANTS
  TargetRate = 1
  MaxSamples = 3
  LastInstant = 6
  MaxBurst = 2
SPECIFICATION TimelineSpec
INVARIANTS
  SustainedAsPromised
CHECK_DEADLOCK FALSE
