SPECIFICATION ConnectorRunSpec
CONSTANTS
  Tenants = {"acme"}
  Calls = {"c1"}
  MaxJobs = 1
  TenantOf <- MCTenantOf
  CallOf <- MCCallOf
  LeaseTtl = 2
  DlqLimit = 2
  CompletedTtl = 1
  CancelledTtl = 1
  MaxCompleted = 1
  MaxCancelled = 1
  MaxClaims = 2
  MaxReplays = 0
  MaxTime = 2
  MaxLag = 0
  ResultJobs = {1}
  Keys = {"k1"}
  NoKey = "none"
  NoResult = NoResult
  KeyOf <- MCKeyOf
  Requests = {r1}
  Timeout = 1
  BlockingModes = {FALSE}
  Strategy = "first_write_wins"
  SuccessValues = {TRUE}
  SoundValues = {TRUE}
  Cancelled = {"c1"}
  Admins = {}
  CleanupInterval = 5
PROPERTIES NoOrphanAfterCancel
CHECK_DEADLOCK FALSE
