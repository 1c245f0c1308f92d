CONSTANTS
  Hash = {h1, h2}
  Path = {p1, p2}
  Proc = {c1, c2}
  None = None
  Commands = {"import", "gc", "audit", "gc-dry-run"}
  MetadataSkip = TRUE
  MaxMtime = 2
  MaxDamage = 1
SPECIFICATION Spec
SYMMETRY Symmetry
INVARIANTS ReportsCurrent
PROPERTIES SharedReadersUndisturbed ImplementsArchive
