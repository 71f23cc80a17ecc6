\* Three ingestions, one of a file with a header only, and two deletions.
CONSTANTS
  i1 = i1
  i2 = i2
  i3 = i3
  x1 = x1
  x2 = x2
  Old = Old
  None = None
  Ingest = {i1, i2, i3}
  Destroy = {x1, x2}
  HeaderOnly = {i3}
SPECIFICATION Spec
SYMMETRY Symmetry
INVARIANT TxnTypeOK
INVARIANT OneAttempt
INVARIANT DeadlockNeedsThird
PROPERTY ImplementsAtomicPublish
\* Every transaction runs once, and then all is over.
CHECK_DEADLOCK FALSE
