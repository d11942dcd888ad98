SPECIFICATION Spec
CONSTANTS
  d1 = d1
  d2 = d2
  d3 = d3
  Docs = {d1, d2, d3}
  Family <- TwoFamilies
  Arms = {"files", "vector", "graph"}
  Limit = 2
  ExactLimit = 2
  BatchSize = 2
  Setups <- SomeSetups
  MaxChanges = 2
  MaxFaults = 1
  Requests <- SomeRequests
  Later <- LaterRequests
  MaxRounds = 2
  VerifyLimit = 1
  VerifyBatchSize = 2
  MaxComplete = 1
  FollowupLimit = 1
  EvidenceLimit = 1
  MaxTurns = 2
  Twins <- OneQuote
  RrfK = 60
  Unit = 238266
  Window = 3
  PoolLimit = 2
  FlatFrom = 2
  SecondaryFloor = 4
  JointLimit = 80
  GraphWeights = {11, 20}
  StrictLimit = 1
  MaxPassages = 2
  MaxLinked = 1
SYMMETRY Copies
INVARIANTS
  RankingsAllowed
  PromisesKept
  AnswersAuthorized
  VerifiedOnly
  SourcesHonest
CHECK_DEADLOCK FALSE
