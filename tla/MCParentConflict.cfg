CONSTANTS
  a = a
  b = b
  Keys <- MCKeys
  Values <- MCValues
  Registered <- MCKeys
  Blocks <- FewBlocks
  Parents <- MCParents
  N = 3
  Nil = Nil
  Estimate = Estimate
  Root = Root
  None = None
SPECIFICATION BlockSpec
INVARIANT NoParentConflict
