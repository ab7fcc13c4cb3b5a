SPECIFICATION Spec
CONSTANTS
  w1 = w1
  w2 = w2
  c1 = c1
  r1 = r1
  r2 = r2
  Worker <- OneWorker
  Found <- NoneOrOne
  Keyless = {}
  Slot = {1}
  Run = {r1, r2}
  Paid = {r1}
  Config <- OneConfig
  Quorum <- NoQuorums
  MinWorkers = 1
  CallsMayFail = TRUE
  ViewsMayFail = TRUE
  MaxProposals = 1
  MaxCrashes = 0
  MaxRestarts = 0
  Coordinator = Coordinator
  Code = Code
  NoCode = NoCode
  NoProposal = NoProposal
  NoAnswer = NoAnswer
  NoWorker = NoWorker
  NoTally = NoTally
  NoConfig = NoConfig
  NoResult = NoResult
  NoQuorum = NoQuorum
INVARIANTS
  LocalInv
CHECK_DEADLOCK FALSE
