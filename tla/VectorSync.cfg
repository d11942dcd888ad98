SPECIFICATION FairSpec
CONSTANTS
  short = short
  long = long
  sidecar = sidecar
  huge = huge
  old = old
  new = new
  Docs = {d1}
  Syncs = {s1, s2}
  Contents <- FourVersions
  Filtered <- OnlySidecar
  Refused <- OnlyHuge
  Signatures <- BothChunkers
  Chunks <- ChunkCounts
  MaxChunks = 3
  Batch = 2
  DeleteBatch = 1
  None = None
  GraphOn = TRUE
  Reverts = FALSE
  Overlapping = FALSE
  MaxAborts = 1
INVARIANTS
  ExactlyIndexed
  GraphFed
  SkipJustified
PROPERTIES
  CurrentRowsAreKept
  Converges
CHECK_DEADLOCK FALSE
