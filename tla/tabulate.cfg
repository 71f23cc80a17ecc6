\* Headers of up to five cells that collide, small tables, columns with up to
\* ten values of a type, and every kind of unusable file.
CONSTANTS
  MaxLen = 5
  MaxGood = 10
  MaxRows = 3
  SampleSize = 2
  Cell <- Cells
  Suffix <- AppendSuffix
  Headers <- AllHeaders
  Files <- AllFiles
  Object <- Objects
  Empty <- EmptyValue
  Blank <- BlankCell
  Unnamed <- ColumnSlug
  Search <- SearchParam
  Reserved <- ReservedParams
  Lookup <- LookupNames
  LookupHolds <- NoLookupHolds
  Index <- IndexNames
  IContains <- ContainsText
SPECIFICATION FairSpec
INVARIANT NamesDistinct
INVARIANT UnrepeatedKept
INVARIANT TableTypeOK
INVARIANT CapExact
INVARIANT CellsKept
INVARIANT QualityAgrees
INVARIANT FilterFindsCells
INVARIANT OnlyWholeFiles
PROPERTY TabulationEnds
\* It ends with the file.
CHECK_DEADLOCK FALSE
