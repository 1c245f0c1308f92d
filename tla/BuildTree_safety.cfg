CONSTANTS
  d = d
  c = c
  x6 = x6
  x8 = x8
  y6 = y6
  y8 = y8
  ex = ex
  ey = ey
  ez = ez
  hx = hx
  hy = hy
  hz = hz
  None = None
  Node = {d, c, x6, x8, y6, y8}
  Above <- Places
  Entry = {ex, ey, ez}
  Hash = {hx, hy, hz}
  HashOf <- BlobOf
  Layout <- Digits
  UserKinds = {"dir", "file", "foreign"}
SPECIFICATION Spec
INVARIANTS TreeWellFormed BuildConverges
PROPERTIES UserEntriesKept LinksNeverFlicker
