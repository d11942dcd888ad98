SPECIFICATION FairSpec
CONSTANTS
  worker = worker
  manual = manual
  Runs = {worker}
  Workers = {worker}
  MaxUid = 2
  MaxNumbering = 2
  Dates = {1, 2}
  Cutoffs = {0, 2}
  Budgets = {0, 1}
  LastUids = {1}
  Refused = {}
  MaxAborts = 1
  Expanding = FALSE
  Overlapping = FALSE
  None = None
INVARIANTS
  NothingLost
PROPERTIES
  AllImported
CHECK_DEADLOCK FALSE
