CONSTANTS
  Path = {p1, p2, p3}
  Hash <- MCHash
  None = None
  Size <- MCSize
  MetadataSkip = TRUE
SPECIFICATION Spec
SYMMETRY Symmetry
INVARIANTS ReportMatchesStore PredictionHolds
