SPECIFICATION SchedulersSpec
CONSTANTS
  Runs = {r1, r2}
  Transports = {"sse", "gateway", "websocket"}
  MaxActiveRuns = 1
  MaxTerminal = 1
  j1 = j1
  j2 = j2
  Jobs = {j1, j2}
  Nodes = {"a", "b", "c"}
  Workloads <- MCGraphs
  RetryLimit <- MCRetries
  MaxExecutions = 2
  PoolSize = 2
  Stores = {"memory", "sqlite"}
  MaxActiveJobs = 1
  MinConcurrency = 1
  MaxConcurrency = 3
  ScaleUpBacklog = 1
  ScaleUpStep = 1
  ScaleUpCooldown = 1
  ScaleUpHysteresis = 1
  BackpressureBacklog = 1
  ActiveRatioPercent = 50
INVARIANTS  JobsSound
PROPERTIES DisconnectEndsTurns JobsFinish
CHECK_DEADLOCK FALSE
