SPECIFICATION RequestsSpec
CONSTANTS
  Agents = {1, 2, 3}
  Roles = {"r1", "r2", "r3"}
  Capabilities = {"c"}
  AgentInputs <- MCAgents
  RouteInputs <- MCRoutes
  PolicyInputs <- MCPolicies
  Plugins <- MCPlugins
  Unbound = Unbound

  CallInputs <- MCCalls
  MaxIntents = 2
  Tools = {"tool:read", "tool:write"}
  Descriptors <- MCDescriptors
  GateConfig <- MCGate
  Overlays <- MCOverlays
  RolePermissions <- MCPermissions
  AuditOnly = FALSE
  ForceDeterministic = FALSE
  MaxChanges = 1

  McpCallIds = {"m1", "m2", "m3"}
  WritingCalls = {"m2"}
  RiskyCalls = {"m1"}
  DeniedCalls = {"m3"}
  FailureThreshold = 2
  MaxRetries = 1
  MaxServerChanges = 2

  AuditTenants = {"t1", "t2"}
  Cleaners = {c1}
  Handlers = {h1}
  CapRequests = {0, 1}
  ConfiguredCap = 1
  Limits = {5}
  MaxExport = 2
  MaxListed = 1
  SigningSettings <- MCSettings
  MaxEvents = 2
  MaxBundles = 1
  MaxSeconds = 1

  Environments <- MCEnvironments
  SessionStores = {"double1", "double2"}
  MaxReplacements = 3
  MaxLaunches = 2

  EvidenceLinks <- MCLinks
  GateOutputs <- MCOutputs
  MetricsFiles <- MCMetrics
  SnapshotFiles <- MCSnapshots
  UiFiles <- MCUi
  MaxSignoffs = 1

  Branches = {"f", "g"}
  MaxCommits = 3
  MaxFinalizes = 1

  Paths = {"f"}
  WorkflowFiles <- MCWorkflowFiles
  CallerGraphs <- MCCallerGraphs
  YamlInstalled = TRUE
  Odd = Odd
  MaxFileWrites = 2

  PullRequests = {"p", "q"}
  PlanningFiles <- MCPlanningFiles
  Operators = {p1, p2}
  MaxScripts = 4

  SessionTenants = {t1, t2}
  Providers = {"other"}
  Configured = {}
  MaxSessions = 2
  MaxCached = 1
  MaxContexts = 1

  BudgetThreads = {b1, b2}
  BudgetOperators = {o1}
  CallKinds <- MCCallKinds
  TenantLimit = 1
  PartitionLimits <- MCPartitionLimits
  CostWindow = 1
  Costs <- MCCosts
  ClaimsBeforeDlq = 1
  BudgetSettings <- MCBudgetSettings
  Thresholds <- MCThresholds
  MaxExecutions = 3
  MaxRefused = 1
  MaxOperatorRequests = 1
  MaxConnectors = 2
  MaxBudgetTime = 2
INVARIANTS
  RoutingSound  DeadLetterExact EvidenceVerifies 
  SummaryAgrees UnpublishedKept GraphsSound MergedWasReviewed  OverspendBounded
 
CHECK_DEADLOCK FALSE
