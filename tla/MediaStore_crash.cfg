CONSTANTS
  Hash = {h1, h2}
  Path = {p1, p2}
  Proc = {c1, c2}
  None = None
  Commands = {"import", "gc"}
  MetadataSkip = TRUE
  MaxMtime = 3
  MaxDamage = 0
SPECIFICATION Spec
SYMMETRY Symmetry
INVARIANTS TypeOK CatalogBacked MetadataSkipSound SkipRequestsCurrent StagingOwned NoOrphanDuringGc OnlyOrphansBlockGc
PROPERTIES UnlinkOnlyMarked RowRemovedAfterFile
