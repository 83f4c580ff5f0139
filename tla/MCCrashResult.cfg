SPECIFICATION DurableSpec
CONSTANTS
  Nodes = {n1}
  DurableJobs = {j1}
  ResultKeys = {d1}
  BlankKey = BlankKey
  Submitters = {u1}
  DurableStrategies = {"first_write_wins"}
  ResultTtl = 1
  KeyTtl = 1
  MaxResultRecords = 1
  MaxLeases = 1
  MaxSubmissions = 1
  MaxNodeRestarts = 1
  MaxDurableTime = 1
INVARIANTS CompletedHasResult
CHECK_DEADLOCK FALSE
