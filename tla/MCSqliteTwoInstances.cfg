SPECIFICATION SqliteSpec
CONSTANTS
  Tenants = {"acme"}
  Calls = {"c1", "c2"}
  MaxJobs = 1
  TenantOf <- MCTenantOf
  CallOf <- MCCallOf
  LeaseTtl = 2
  DlqLimit = 1
  CompletedTtl = 1
  CancelledTtl = 1
  MaxCompleted = 1
  MaxCancelled = 1
  MaxClaims = 3
  MaxReplays = 1
  MaxTime = 4
  MaxLag = 0
  Instances = {"p1", "p2"}
  MaxCrashes = 0
INVARIANTS LeaseMutex
CHECK_DEADLOCK FALSE
