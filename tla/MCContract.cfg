SPECIFICATION FairSpec
CONSTANTS
  Account = {a1}
  Codehash = {c1}
  WorkerId = {w1}
  Submitter = {w1, w2}
  Config = {cfgA, cfgB}
  Result = {r1, r2}
  Submission <- MCSubmission
  Batches <- MCBatches
  ExpectedCounts = {0, 1, 2}
  MaxBatch = 2
  MaxProposals = 2
  NoProposal = NoProposal
  NoResult = NoResult
  NoCode = NoCode
  NoWorker = NoWorker
INVARIANTS
  TypeOK
  NullifierOnce
  RecordAgreesWithPromise
  ResultsFollowSubmissions
PROPERTIES
  LifecycleOrder
  EveryCoordinationSettles
  ImplementsSettlement
