SPECIFICATION RegistrationSpec
CONSTANTS
  a1 = a1
  a2 = a2
  Account = {a1, a2}
  WorkerDid = {w1}
  CoordinatorDid = {d1}
  Endpoint = {e1, e2}
  Key = {k1}
  Nonce = {n1}
  Deposit = {1, 2}
  DefaultDeposit = 1
  WorkerRanges <- SomeRanges
  MaxReinits = 1
  OwnAccount <- OnePayer
  CoordinatorAccount <- OtherPayer
  CoordinatorRange <- GoodRange
  OwnDeposit = 1
  ViewsMayFail = FALSE
  MaxStarts = 2
  NoRecord = NoRecord
  NoKey = NoKey
  NoEndpoint = NoEndpoint
PROPERTY
  RegisteredIsListed
