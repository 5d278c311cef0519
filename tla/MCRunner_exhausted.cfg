CONSTANTS
  Null = Null
  Inputs <- ShortLinks
  ScrapeResults = {"ok", "gone", "transport"}
  MaxAttempts = 2
  Concurrency = 2
  MaxQueueSize = 1
  ProxyMode = "static"
  ProxySlots = 1
SPECIFICATION Spec
INVARIANTS
  ExhaustedUsedEveryAttempt
