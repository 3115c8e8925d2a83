\* The claim of value.rs about the union member read.
CONSTANTS
  Narrow = 1
  Wide = 2
  Instance = {i1}
  FuncType <- RefFuncs
  HostType <- PlainHosts
  Matching = "letters"
  HostVal = {}
  Args <- PlainArgs
  Nested = {}
  MaxResults = 1
  MaxDepth = 1
SPECIFICATION Spec
INVARIANT MemberMatchesKind
