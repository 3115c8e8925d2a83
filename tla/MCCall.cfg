\* Values of each type through one of the encodings at least, integers of both
\* widths through both; 4 and 8 values per type with Narrow = 2.  Failures in
\* calls nested three deep on two instances.
CONSTANTS
  Narrow = 2
  Wide = 4
  Instance = {i1, i2}
  FuncType <- Funcs
  HostType <- Hosts
  Matching = "letters"
  HostVal <- HostVals
  Args <- ArgLists
  Nested <- Plain
  MaxResults = 2
  MaxDepth = 3
SPECIFICATION Spec
SYMMETRY Perms
INVARIANTS IInv ArgsArrive HostResultArrives WrittenOnlyOnOk NoFalseOk TrapConfined
