SPECIFICATION FairLiveSpec
CONSTANTS
  AdmissionTenants = {t1, t2}
  Limits = {1, 2}
  MaxRequests = 3
  CleanupModes = {TRUE}
PROPERTIES NoStarvation
CHECK_DEADLOCK FALSE
