\* Groups of 2 bits and 5 bits of result: three groups, of which the last has
\* one bit that fits and one that does not.  Pages of 2 bytes, at most 3 of
\* them, addresses below 8; globals of 2 and 4 values in cells of one bit.
CONSTANTS
  GroupBits = 2
  Width = 5
  Files <- MCFiles
  Narrow = 1
  Wide = 2
  Name = {"m", "n", "none"}
  Address = {a1, a2}
  Null = null
  Empty = empty
  PageSize = 2
  Usize = 8
  U64Max = 7
  MaxPages = 3
SPECIFICATION Spec
INVARIANTS InStep DeclaredFound LebDecodes OverflowIsCut LiveInv SizeAgrees ViewsExact GlobalsHold FoundIsExported
PROPERTIES ScanAdvances ScanEnds ConstStays
CHECK_DEADLOCK FALSE
