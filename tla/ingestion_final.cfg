\* Nobody replaces a source file.
CONSTANTS
  d1 = d1
  Dataset = {d1}
  t1 = t1
  t2 = t2
  t3 = t3
  Task = {t1, t2, t3}
  r1 = r1
  r2 = r2
  r3 = r3
  Request = {r1, r2, r3}
  g = g
  b = b
  p = p
  Good = {g}
  Bad = {b}
  Poison = {p}
  NoFile = NoFile
  None = None
  Ops = {"retry", "destroy", "requestdies", "taskdies", "redeliver"}
SPECIFICATION Spec
SYMMETRY Symmetry
INVARIANT EventsAgree
PROPERTY ReadyIsFinal
\* A system with nothing left to do may stop.
CHECK_DEADLOCK FALSE
