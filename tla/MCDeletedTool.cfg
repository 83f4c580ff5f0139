SPECIFICATION VersionsSpec
CONSTANTS
  Versions = {"v1"}
  Bundles = {"good"}
  ValidBundles = {"good"}
  MaxAuditing = 1
INVARIANTS DeletedStaysDeleted
CHECK_DEADLOCK FALSE
