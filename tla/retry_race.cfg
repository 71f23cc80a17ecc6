\* Two retries overlap.
CONSTANTS
  d1 = d1
  Dataset = {d1}
  t1 = t1
  t2 = t2
  t3 = t3
  Task = {t1, t2, t3}
  r1 = r1
  r2 = r2
  r3 = r3
  Request = {r1, r2, r3}
  g = g
  b = b
  Good = {g}
  Bad = {b}
  Poison = {}
  NoFile = NoFile
  None = None
  Ops = {"retry"}
SPECIFICATION Spec
SYMMETRY Symmetry
PROPERTY OnlyFailedIsRetried
\* A system with nothing left to do may stop.
CHECK_DEADLOCK FALSE
