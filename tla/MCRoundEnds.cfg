SPECIFICATION FairSpec
CONSTANTS
  w1 = w1
  w2 = w2
  c1 = c1
  c2 = c2
  Worker = {w1}
  ActiveSets <- OneFound
  Slot = {1}
  Tick = {1, 2}
  Config <- OneConfig
  Quorum <- NoQuorums
  ExpectedCounts = {1}
  CallsMayFail = TRUE
  EnsueMayFail = TRUE
  MaxProposals = 1
  MaxTicks = 2
  MaxCrashes = 1
  MaxRestarts = 0
  Coordinator = Coordinator
  Code = Code
  NoCode = NoCode
  NoProposal = NoProposal
  NoAnswer = NoAnswer
  NoWorker = NoWorker
  NoTally = NoTally
  NoConfig = NoConfig
  NoResult = NoResult
  NoQuorum = NoQuorum
PROPERTY
  TicksEnd
CHECK_DEADLOCK FALSE
