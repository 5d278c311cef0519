CONSTANTS
  Runs <- MCRuns
  Continuous <- MCContinuous
  Sessions = 1
  MaxRetained = 1
  MaxSamples = 2
  MaxTotal = 3
  Null = Null
  Polls <- MCPolls
SPECIFICATION MCSpec
INVARIANTS CancelHonoured ResourcesNest PageTellsTheRun
PROPERTIES RetentionIsSafe EachRunLives RunsSettle
