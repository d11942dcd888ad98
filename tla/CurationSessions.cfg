SPECIFICATION SessionFairSpec
CONSTANTS
  Logins = {anna}
  Strangers = {ben}
  Flows = {f1, f2}
  Requests = {q1, q2}
  None = None
  MaxFaults = 2
INVARIANTS
  OnlyOwnSessions
PROPERTY
  PasswordsRevoked
CHECK_DEADLOCK FALSE
