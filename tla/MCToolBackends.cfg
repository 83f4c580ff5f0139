SPECIFICATION BackendsSpec
CONSTANTS
  Tenants = {"acme"}
  Calls = {"c1", "c2"}
  MaxJobs = 2
  TenantOf <- MCTenantOf
  CallOf <- MCCallOf
  LeaseTtl = 2
  DlqLimit = 1
  CompletedTtl = 1
  CancelledTtl = 1
  MaxCompleted = 1
  MaxCancelled = 1
  MaxClaims = 3
  MaxReplays = 1
  MaxTime = 4
  MaxLag = 1
  Instances = {"p1"}
  MaxCrashes = 1
  i1 = i1
  i2 = i2
  i3 = i3
  Invocations <- MCInvocations
  InvocationTenant <- MCInvocationTenant
  CallId <- MCCallId
  Isolations = {"thread", "process"}
  MaxWorkers = 1
  MaxPoolTenants = 1
  IdleSeconds = 0
  MaxExecutors = 2
  PoolTime = 1
  PoolLag = 1
  MaxRequested = 1
  v1 = v1
  v2 = v2
  Versions = {v1, v2}
  Bundles = {"good", "bad"}
  ValidBundles = {"good"}
  MaxAuditing = 1
  Workers = {w1, w2}
  OpenOrder <- MCOpenOrder
  TenantTables = {"checkpoints"}
  RecordTenants = {d1, d2}
  RecordIds = {"x"}
  Contents = {"a"}
  NoRecord = NoRecord
  NoWriter = NoWriter
  MaxWrites = 2
  MaxStartups = 3
INVARIANTS SandboxAnswersHold ServedIsSound RecordsSound
PROPERTIES DurableLeasesHold
SYMMETRY BackendsSymmetry
CHECK_DEADLOCK FALSE
