CONSTANTS
  Null = Null
  s1 = s1  s2 = s2  s3 = s3
  direct = direct  gateway = gateway
  Sessions = {s1, s2, s3}
  Jobs = {j1, j2}
  Routes = {direct, gateway}
  BoundTo <- Binding
  MaxConsecutiveFailures = 2
  CooldownMs = 1
  MaxStreak = 2
  MaxTime = 2
  Requests = {"a", "b", "c"}
  Hosts = {"limited", "free"}
  Rate <- Ceilings
  MaxWait <- Budgets
  Cost = 3
  Burst = 1
  Late = 1
  LastEntry = 3
  MaxClock = 8
  None = None
  Calls = {"a", "b"}
  Gateways = {"proxy", "direct", "socks"}
  Supported = {"proxy", "direct"}
  MaxHops = 2
  MaxAggregators = 2
  Attempts = {"a", "b"}
  Exits = {"proxy"}
  Bindings = {"proxy", "other"}
  Authors <- PostAuthors
  MaxAuthors = 1
  MaxPages = 2
  PostStatuses = {"403"}
  PostCauses = {"timeout"}
  VideoStatuses = {"400", "401", "403", "404", "408", "429", "451", "4xx", "5xx"}
  VideoCauses = {"timeout", "cancelled", "throttled", "network_error"}
  Posts = {"x"}
  LinkStatuses = {"2xx", "403", "404", "451", "4xx", "5xx"}
  LinkCauses = {"timeout"}
  MaxRedirects = 2
  Entries <- Pasted
  LeadsTo <- Destinations
  Resolvers = {"v", "w"}
  Slots = 1
  MaxAttempts = 2
  MaxCalls = 2
  Rows = {"r1", "r2", "r3", "r4"}
  HighWater = 2
  Cut = cut
  Views <- Bandwidth
  MaxRuns = 3
  MaxEvents = 2
  Proxies = {"p"}
  ErrorCodes = {"timeout", "not_found", "cancelled"}
  Results <- RequestResults
  MaxCycles = 2
  MaxSteps = 3
  TargetRate = 1
  MaxSamples = 3
  LastInstant = 5
  MaxBurst = 2
  Configured = 6
  Accepted = 8
  Capacities = {0, 2, 3, 4, 6}
  Figures <- Measured
  MinuteMs = 6
  MaxObservations = 3
  MsPerDay = 6
  MinutesPerDay = 2
  DaysPerMonth = 3
  ShareUnit = 2
  DecimalGb = 4
  BinaryGib = 5
  Labels = {"Fresh", "Settling", "Dormant", "Flat", "Stage"}
  Tolerance = 4
  Precision = 10
  Drift = 1
  Nudge <- RoundedOff
  Presets <- PagePresets
  DefaultPreset = "tiktok"
  TaperedStages <- Tapered
  FlatStages <- Flat
  Values <- Typed
  StageValues <- TypedStages
  MaxStages = 4
  MaxEdits = 2
SPECIFICATION PartsSpec
INVARIANTS
  StreakIsBenched
  InUseHasHolder
  EgressKept
  BytesAccounted
  RequestsShared
  SessionIsLastResort
  ProxyJudgedByAnswer
  ResolutionStaysHome
  EveryLineAccounted
  RowsKept
  FilesHold
  ReportsReconcile
  PlanHolds
PROPERTIES
  WorkSettles
CHECK_DEADLOCK FALSE
