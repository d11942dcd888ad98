SPECIFICATION FairSpec
CONSTANTS
  Docs = {d1}
  Workers = {w1, w2}
  Events <- OneKind
  MaxAttempts = 2
  LongJobs = TRUE
  Overlapping = TRUE
  Caller = Caller
  MaxJobs = 2
  MaxEvents = 2
  MaxCrashes = 0
  MaxStops = 1
INVARIANT
  AttemptsBounded
PROPERTY
  JobsResolved
CHECK_DEADLOCK FALSE
