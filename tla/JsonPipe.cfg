\* Every tree of the sets in MCJsonPipe, and four types to look for.
SPECIFICATION Spec
CONSTANTS
  MaxDepth = 5
  ReadDepth = 5
  Trees <- MCTrees
  Wanted <- MCWanted
INVARIANTS PrintsTheTree ReadsTheTree FindsAll
CHECK_DEADLOCK FALSE
