\* The claim of instance.rs about MemoryNotFound.
CONSTANTS
  GroupBits = 2
  Width = 5
  Files <- ImportedFiles
  Narrow = 1
  Wide = 2
  Name = {"m", "n", "none"}
  Address = {a1, a2}
  Null = null
  Empty = empty
  PageSize = 2
  Usize = 8
  U64Max = 7
  MaxPages = 3
SPECIFICATION Spec
INVARIANT NotFoundIsNotExported
CHECK_DEADLOCK FALSE
