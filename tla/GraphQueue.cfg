SPECIFICATION Spec
CONSTANTS
  Docs = {d1, d2}
  Workers = {w1, w2}
  Events <- TwoKinds
  MaxAttempts = 2
  LongJobs = FALSE
  Overlapping = FALSE
  Caller = Caller
  MaxJobs = 2
  MaxEvents = 2
  MaxCrashes = 1
  MaxStops = 0
INVARIANTS
  OneActiveJobPerDocument
  EventsConserved
PROPERTIES
  FinalStatusIsFinal
  OnlyAbandonedReturn
  ImplementsDocumentQueue
SYMMETRY Symmetry
CHECK_DEADLOCK FALSE
