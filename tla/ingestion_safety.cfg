\* Everything but changes of visibility and the administration site.
CONSTANTS
  d1 = d1
  Dataset = {d1}
  t1 = t1
  t2 = t2
  t3 = t3
  Task = {t1, t2, t3}
  r1 = r1
  r2 = r2
  r3 = r3
  Request = {r1, r2, r3}
  g = g
  b = b
  p = p
  Good = {g}
  Bad = {b}
  Poison = {p}
  NoFile = NoFile
  None = None
  Chosen = d1
  Ops = {"retry", "destroy", "edit", "requestdies", "taskdies", "redeliver"}
SPECIFICATION FateSpec
SYMMETRY Symmetry
INVARIANT ReadyDescribesRows
INVARIANT ReadyAnnouncedIsReadable
INVARIANT NoLeakedFile
PROPERTY DeletedStaysDeleted
PROPERTY PublishesAtomically
\* A system with nothing left to do may stop.
CHECK_DEADLOCK FALSE
