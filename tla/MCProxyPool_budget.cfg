CONSTANTS
  Null = Null
  Proxies = {p1}
  Jobs = {j1, j2}
  MaxConsecutiveFailures = 2
  CooldownMs = 2
  MaxConcurrentPerProxy = 1
  ProbationConcurrency = 1
  ExplorationPeriod = 2
  RequireProxy = FALSE
  AcquireWaitMs = 1
  MaxAcquires = 2
  MaxTime = 3
SPECIFICATION Spec
INVARIANTS WaitBoundedByBudget
