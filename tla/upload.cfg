\* Three uploads that collide in their names, or not.
CONSTANTS
  Request = {1, 2, 3}
  MaxSheets = 2
  MaxSize = 1
  MaxDeletions = 1
  Address = {"public", "private"}
  Internal = {"private"}
  Sheet = {"csv", "a", "b", "c"}
  Forms <- AllForms
  SheetName <- CutName
SPECIFICATION FairSpec
INVARIANT UploadTypeOK
INVARIANT AllSheetsOrNone
INVARIANT NameTakenOnce
INVARIANT FilesAccountedFor
PROPERTY ImplementsAtomicUpload
PROPERTY EveryUploadEnds
\* Every upload is answered once, and then all is over.
CHECK_DEADLOCK FALSE
