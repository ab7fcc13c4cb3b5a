SPECIFICATION ProvisioningSpec
CONSTANTS
  Kind <- Kinds
  Prefix = {p1}
  NoPrefix = NoPrefix
  NoJob = NoJob
  NoView = NoView
  MaxJobs = 1
  MaxReloads = 0
  MaxFaults = 0
  LatePolls = TRUE
INVARIANT
  CompleteHasKey
CHECK_DEADLOCK FALSE
