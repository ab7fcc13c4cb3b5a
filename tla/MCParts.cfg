SPECIFICATION PartsSpec
CONSTANTS
  Kind <- Kinds
  Prefix = {p1, p2}
  NoPrefix = NoPrefix
  NoJob = NoJob
  NoView = NoView
  MaxJobs = 2
  MaxReloads = 1
  MaxFaults = 1
  LatePolls = FALSE
  a1 = a1
  a2 = a2
  Account = {a1, a2}
  WorkerDid = {w1}
  CoordinatorDid = {d1}
  Endpoint = {e1, e2}
  Key = {k1, k2}
  Nonce = {n1}
  Deposit = {1, 2}
  DefaultDeposit = 1
  WorkerRanges <- SomeRanges
  MaxReinits = 1
  OwnAccount <- OnePayer
  CoordinatorAccount <- OtherPayer
  CoordinatorRange <- GoodRange
  OwnDeposit = 1
  ViewsMayFail = TRUE
  MaxStarts = 2
  NoRecord = NoRecord
  NoKey = NoKey
  NoEndpoint = NoEndpoint
  Worker = {w1}
  Slot = {1, 2}
  Config = {c1, c2}
  Vote = {"Approved", "Rejected"}
  NoConfig = NoConfig
  NoResult = NoResult
  EnsueMayFail = FALSE
  MaxRestarts = 1
INVARIANTS
  ProvisioningInv
  CompleteHasKey
  ShownIsRemembered
  FailedJobLeavesNoDroplet
  RegistryInv
  DiscoveryFits
  FlagInv
  ResultBeforeCompleted
PROPERTIES
  UiSettles
  OwnershipKept
  PendingIsPickedUp
CHECK_DEADLOCK FALSE
