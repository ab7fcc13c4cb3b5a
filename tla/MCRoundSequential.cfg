SPECIFICATION Spec
CONSTANTS
  w1 = w1
  w2 = w2
  c1 = c1
  c2 = c2
  Worker <- TwoWorkers
  ActiveSets <- OneOrBothFound
  Slot = {1}
  Tick = {1}
  Config <- TwoConfigs
  Quorum <- QuorumsDiffer
  ExpectedCounts = {1, 2}
  CallsMayFail = FALSE
  EnsueMayFail = FALSE
  MaxProposals = 2
  MaxTicks = 2
  MaxCrashes = 0
  MaxRestarts = 0
  Coordinator = Coordinator
  Code = Code
  NoCode = NoCode
  NoProposal = NoProposal
  NoAnswer = NoAnswer
  NoWorker = NoWorker
  NoTally = NoTally
  NoConfig = NoConfig
  NoResult = NoResult
  NoQuorum = NoQuorum
INVARIANTS
  TallyMatchesCommitments
CHECK_DEADLOCK FALSE
