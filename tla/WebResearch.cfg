SPECIFICATION FairSpec
CONSTANTS
  html = html
  pdf = pdf
  Pages = {html, pdf}
  Html = {html}
  MaxSources = 2
  Requests <- Opening
  Later <- Following
  Background = TRUE
  MaxTurns = 2
  MaxRuns = 2
  MaxEvents = 2
INVARIANTS
  WebEvidenceHonest
  SnapshotIsEvidence
  LossesTold
PROPERTY
  PrintsSettle
CHECK_DEADLOCK FALSE
