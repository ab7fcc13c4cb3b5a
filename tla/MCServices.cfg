SPECIFICATION Spec
CONSTANTS
  Ada = Ada
  Bob = Bob
  Cyd = Cyd
  Address = {Ada, Bob, Cyd}
  Owner = Ada
  Word = 4
  Vote = {0, 1, 3}
  Count = {0, 1, 2}
  Duration = {0, 1}
  MaxProposals = 1
  MaxBlock = 4
  Connection = {n1, n2, n3, n4}
  maxSessions = 2
  idleTtlMs = 1
  sweepIntervalMs = 2
  MaxTime = 5
  Call = {k1, k2}
  NoDocument = NoDocument
  MaxEdits = 3
  MaxRestarts = 1
  MaxFaults = 1
  MaxRekeys = 1
  Pool <- Candidates
  LcgWord = 256
  Multiplier = 1664525
  Increment = 1013904223
  Wallet = {w1, w2}
  NoWallet = NoWallet
  BalanceCheck = {c1, c2}
  MaxTroubles = 1
  Ann = Ann
  Ben = Ben
  WorkerId = {Ann, Ben}
  MaxCalls = 2
  Manifesto = Manifesto
  Preferences = Preferences
  MaxWrites = 2
  MaxStarts = 1
  MaxMishaps = 1
  Visitor = {v1, v2}
  Limit = {1, 2}
  HourTicks = 1
  DayTicks = 2
  MaxRuns = 2
  MaxTicks = 3
  e1 = e1
  e2 = e2
  poller = poller
  Did = {Ann}
  Endpoint = {e1, e2, poller}
  PollingOnly = {poller}
  NoEndpoint = NoEndpoint
  Nobody = Nobody
  Unnamed = Unnamed
  ValidationTTL = 2
  ProbeTime = 1
  ListTime = 1
  View = {q1, q2}
  Registration = {r1}
  MaxShifts = 2
  Name = {m1, m2}
  NoName = NoName
  TruncatedDid = TruncatedDid
  LookUp = {l1, l2}
  Renaming = {r1, r2}
  MaxNames = 3
  VaultCall = {k1, k2}
  Proposal = {p1, p2}
  EnsueTree = EnsueTree
  Gateways = 2
  RetriesPerGateway = 1
  MaxTasks = 3
  MaxFailures = 2
  MaxReboots = 1
  Agent = {Ann, Ben}
  Nothing = Nothing
  Interval = 2
  Timeout = 3
  Slots = 4
  MaxClicks = 2
INVARIANTS
  VotingInv
  ResultStands
  SessionInv
  ProfileInv
  IdentityInv
  FairJury
  OnboardingInv
  PagesInv
  WorkersShown
PROPERTIES
  ActiveIsKept
  CacheGrows
  GoesForward
CHECK_DEADLOCK FALSE
