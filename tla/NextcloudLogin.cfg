SPECIFICATION LoginFairSpec
CONSTANTS
  anna = anna
  ben = ben
  Frontends = {i1}
  Logins = {anna, ben}
  Known <- OnlyAnna
  Flows = {f1, f2}
  Requests = {q1, q2}
  None = None
  MaxFaults = 3
INVARIANTS
  BindingFollowsLogin
PROPERTY
  LoginCompletes
CHECK_DEADLOCK FALSE
