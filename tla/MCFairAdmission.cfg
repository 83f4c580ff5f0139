SPECIFICATION FairLiveSpec
CONSTANTS
  AdmissionTenants = {t1, t2}
  Limits = {1, 2}
  MaxRequests = 3
  CleanupModes = {TRUE, FALSE}
INVARIANTS InflightExact NoIdleSlot NoOvertaking
PROPERTIES TimeoutOnlyUnderLoad AcquireReturns
CHECK_DEADLOCK FALSE
