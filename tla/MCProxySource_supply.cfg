CONSTANTS
  Null = Null
  Proxies = {p1, p2}
  Jobs = {j1}
  MaxConsecutiveFailures = 1
  CooldownMs = 1
  MaxConcurrentPerProxy = 1
  ProbationConcurrency = 1
  ExplorationPeriod = 2
  AcquireWaitMs = 1
  MaxAcquires = 2
  MaxTime = 2
  TargetCapacity = 1
  MinCapacity = 1
  MaxCandidates = 2
  BootstrapRounds = 1
SPECIFICATION FairSpec
INVARIANTS
  RosterMatchesRecords
PROPERTIES
  EvictionIsNarrow
  ShortfallAnswered
