SPECIFICATION StoresSpec
CONSTANTS
  Tenants = {"acme"}
  Calls = {"c1", "c2"}
  MaxJobs = 2
  TenantOf <- MCTenantOf
  CallOf <- MCCallOf
  LeaseTtl = 2
  DlqLimit = 2
  CompletedTtl = 1
  CancelledTtl = 1
  MaxCompleted = 1
  MaxCancelled = 1
  MaxClaims = 2
  MaxReplays = 1
  MaxTime = 5
  MaxLag = 1
  ResultJobs = {1, 2}
  Keys = {"k1", "k2", "k3"}
  NoKey = "none"
  NoResult = NoResult
  Processes = {p1, p2, p3}
  MaxInflight = 2
  SlotLease = 2
  MaxSlots = 5
  SlotTime = 5
  SlotLag = 1
  MaxSlotCrashes = 1
  Buckets = {b1, b2}
  Servers = {s1}
  Backends = {"memory", "sqlite"}
  MaxRequests = 2
  WindowSeconds = 2
  RateTime = 5
  RateLag = 0
  MaxAllowed = 4
  RequestKeys = {k1, k2}
  TokenTtls = {2, 6}
  ReplayTtl = 3
  Durable = TRUE
  GuardTime = 7
  GuardLag = 1
  MaxRestarts = 2
  RegistryProcesses = {w1}
  RegistryRuns = {a, b}
  RecordedCalls = {c1}
  MaxKept = 1
  MaxStarts = 4
  Nodes = {n1, n2}
  DurableJobs = {j1, j2}
  ResultKeys = {d1, d2}
  BlankKey = BlankKey
  Submitters = {u1, u2}
  DurableStrategies = {"first_write_wins", "prefer_success"}
  ResultTtl = 1
  KeyTtl = 1
  MaxResultRecords = 1
  MaxLeases = 1
  MaxSubmissions = 2
  MaxNodeRestarts = 1
  MaxDurableTime = 2
  AccessTenants = {"t1", ""}
  RoleLists <- MCRoleLists
  Jwts <- MCJwts
  Assertions <- MCAssertions
  Deployments <- MCDeployments
  MaxKeys = 2
  PolicyRequests = {r1, r2}
  PolicyTurns = {q1}
  Bodies <- MCBodies
  Extras <- MCExtras
  Texts <- MCTexts
  CallerTiers = {"foundation", "pro", "enterprise"}
INVARIANTS
  QueueExact LeaseMutex ResultsSettled SlotsHonoured  ReplayBlocked 
   PolicySound
PROPERTIES CompletedByHolder LifecycleOrder AdmittedAsGranted
SYMMETRY StoresSymmetry
CHECK_DEADLOCK FALSE
