CONSTANTS
  Null = Null
  Inputs <- MixedBatch
  ScrapeResults = {"ok", "transport", "refused"}
  MaxAttempts = 2
  Concurrency = 2
  MaxQueueSize = 1
  ProxyMode = "static"
  ProxySlots = 1
SPECIFICATION FairSpec
INVARIANTS
  BoundedWork
  RowsAccounted
PROPERTIES
  AbortIsClean
  RunReturns
