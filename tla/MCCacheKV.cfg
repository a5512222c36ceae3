CONSTANTS
  v1 = v1
  Keys = {1, 2}
  Values = {v1}
  Depth = 2
  Ranges <- MCRanges
  BaseAtStart <- MCBase
  Nil = Nil
  None = None
  NoTree = NoTree
SPECIFICATION KVSpec
INVARIANTS KVTypeOK TreesAreCurrent KeysAreIterated
PROPERTY ImplementsBranches
