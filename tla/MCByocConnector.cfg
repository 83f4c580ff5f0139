SPECIFICATION ConnectorRunSpec
CONSTANTS
  Tenants = {"acme"}
  Calls = {"c1"}
  MaxJobs = 2
  TenantOf <- MCTenantOf
  CallOf <- MCCallOf
  LeaseTtl = 1
  DlqLimit = 2
  CompletedTtl = 1
  CancelledTtl = 1
  MaxCompleted = 1
  MaxCancelled = 1
  MaxClaims = 2
  MaxReplays = 1
  MaxTime = 2
  MaxLag = 0
  ResultJobs = {1, 2}
  Keys = {"k1"}
  NoKey = "none"
  NoResult = NoResult
  KeyOf <- MCKeyOf
  Requests = {r1, r2}
  Timeout = 1
  BlockingModes = {TRUE, FALSE}
  Strategy = "first_write_wins"
  SuccessValues = {TRUE}
  SoundValues = {TRUE, FALSE}
  Cancelled = {"c1"}
  Admins = {"acme"}
  CleanupInterval = 1
INVARIANTS OneIngestPerJob 
 
CHECK_DEADLOCK FALSE
