SPECIFICATION FairSpec
CONSTANTS
  w1 = w1
  w2 = w2
  c1 = c1
  r1 = r1
  r2 = r2
  Worker <- TwoWorkers
  Found <- OneOrBoth
  Keyless = {w2}
  Slot = {1}
  Run = {r1}
  Paid = {r1}
  Config <- OneConfig
  Quorum <- NoQuorums
  MinWorkers = 1
  CallsMayFail = TRUE
  ViewsMayFail = TRUE
  MaxProposals = 1
  MaxCrashes = 1
  MaxRestarts = 0
  Coordinator = Coordinator
  Code = Code
  NoCode = NoCode
  NoProposal = NoProposal
  NoAnswer = NoAnswer
  NoWorker = NoWorker
  NoTally = NoTally
  NoConfig = NoConfig
  NoResult = NoResult
  NoQuorum = NoQuorum
INVARIANTS
  VerdictAgreesWithChain
PROPERTIES
  VerdictStands
  VerdictSettles
CHECK_DEADLOCK FALSE
