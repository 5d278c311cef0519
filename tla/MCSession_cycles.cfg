CONSTANTS
  Null = Null
  Schedules <- Plans
  Requests = 2
  Concurrency = 1
  StallMs = 1
  MaxTime = 2
SPECIFICATION FairSpec
INVARIANTS
  StallsSettled
  ScheduleKept
  StoppedForItsReason
  LatestBandwidthWins
PROPERTIES
  ImplementsLifecycle
  SessionReports
