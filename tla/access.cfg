\* Two requests by owners, keys and others.
CONSTANTS
  d1 = d1
  d2 = d2
  u1 = u1
  u2 = u2
  k1 = k1
  k2 = k2
  Anon = anon
  None = none
  Dataset = {d1, d2}
  User = {u1, u2}
  Key = {k1, k2}
  Request = {r1, r2}
  OwnerOf <- Owners
  DatasetOf <- KeyDatasets
  Rate <- Rates
  MaxAttempt = 2
  Target = {d1}
SYMMETRY Symmetry
SPECIFICATION Spec
INVARIANT AccessTypeOK
INVARIANT RevocationHolds
INVARIANT NoKeyWithoutDataset
INVARIANT FiltersAgree
PROPERTY RowsNoOlderThanColumns
PROPERTY RefusedOnlyWhenFull
CHECK_DEADLOCK FALSE
