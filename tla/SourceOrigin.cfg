SPECIFICATION OriginFairSpec
CONSTANTS
  Docs = {d1}
  Roots = {r1, r2}
  ChatRoots = {r2}
  Elsewhere = Elsewhere
  None = None
  Scopes <- TwoScopes
  MaxChanges = 2
  MaxMoves = 1
  MaxScans = 1
  MaxFaults = 1
INVARIANTS
  ArchivedStaysOut
PROPERTY
  MirrorCatchesUp
CHECK_DEADLOCK FALSE
