\* The broker cannot be reached after the rows were committed.
CONSTANTS
  d1 = d1
  Dataset = {d1}
  t1 = t1
  Task = {t1}
  r1 = r1
  Request = {r1}
  g = g
  b = b
  Good = {g}
  Bad = {b}
  Poison = {}
  NoFile = NoFile
  None = None
  Ops = {"requestdies"}
SPECIFICATION Spec
SYMMETRY Symmetry
INVARIANT PendingIsQueued
\* A system with nothing left to do may stop.
CHECK_DEADLOCK FALSE
