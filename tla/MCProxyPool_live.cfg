CONSTANTS
  Null = Null
  Proxies = {p1}
  Jobs = {j1, j2}
  MaxConsecutiveFailures = 1
  CooldownMs = 1
  MaxConcurrentPerProxy = 1
  ProbationConcurrency = 1
  ExplorationPeriod = 2
  RequireProxy = TRUE
  AcquireWaitMs = 1
  MaxAcquires = 1
  MaxTime = 2
SPECIFICATION FairSpec
PROPERTIES AcquireSettles
