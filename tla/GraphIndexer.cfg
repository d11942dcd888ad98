SPECIFICATION Spec
CONSTANTS
  first = first
  longer = longer
  huge = huge
  passage = passage
  empty = empty
  ada = ada
  bob = bob
  cyn = cyn
  Versions = {first, longer, huge}
  Snippet = passage
  Empty = empty
  Names = {ada, bob, cyn}
  In <- NamesIn
  Signal <- Signals
  Kind <- KindOf
  Oversize = {huge}
  worker = worker
  Worker = worker
  caller = caller
  Callers = {caller}
  Kinds <- AllKinds
  manual = manual
  Manual = manual
  None = None
  MaxAttempts = 2
  LostChunks = TRUE
  Overlapping = FALSE
  MaxEdits = 1
  MaxEvents = 2
  MaxFaults = 1
  MaxRulings = 1
INVARIANTS
  StateVouches
  EvidenceCounted
PROPERTIES
  DoneMeansLinked
  CuratedWorkKept
CHECK_DEADLOCK FALSE
