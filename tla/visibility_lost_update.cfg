\* A change of visibility overlaps an ingestion.
CONSTANTS
  d1 = d1
  Dataset = {d1}
  t1 = t1
  Task = {t1}
  r1 = r1
  r2 = r2
  Request = {r1, r2}
  g = g
  b = b
  Good = {g}
  Bad = {b}
  Poison = {}
  NoFile = NoFile
  None = None
  Ops = {"visibility"}
SPECIFICATION Spec
SYMMETRY Symmetry
PROPERTY VisibilityWritesOnlyIsPublic
\* A system with nothing left to do may stop.
CHECK_DEADLOCK FALSE
