SPECIFICATION MCSpec
CONSTANTS
  Processes = {"w", "1"}
  Numeric = {"1"}
  Configs <- MCConfigs
  Members <- MCMembers
  MaxCalls = 4
  Gateways <- MCGateways
  MaxStarts = 2
  Plays <- MCPlays
  Plans <- MCPlans
  MaxRequests = 3
  Names = {"rate_limiter", "topology_agent", "eval_agent", "a", "d1", "d2", "x", "y"}
  Clients = {"c1", "c2"}
  MaxHits = 2
  Window = 1
  MaxClock = 2
  MaxVerdicts = 4
  WindowSize = 2
  Bucket = 3
  Limit = 2
  Scenes <- MCScenes
  MaxSpans = 3
  QueueSize = 2
  BatchSize = 2
  Retention = 1
  MaxAttach = 2
  MaxNow = 4
  Ranges <- MCRanges
  MaxEvents = 5
  AuditBatch = 2
  Backend = "sqlite"
  Values = {v1, v2}
  KeyRing = {k1, k2}
  Empty = Empty
INVARIANTS   StopReleases
  ListenersAsConfigured AnswersTrue RateExact IntrospectionAgrees
  SpansAccounted QueryExact AuditExact
 
CHECK_DEADLOCK FALSE
