CONSTANTS
  Heights = {1, 2}
  Chunks = 2
  Extensions = 1
  ChunkIDBuffer = 2
  ChunkBuffer = 1
  FaultSets <- MCFaultSets
  MaxSessions = 2
  MaxCrashes = 1
SPECIFICATION FairSpec
INVARIANTS TypeOK OneRestorer CompleteIsWhole  RestoreInv
  
CHECK_DEADLOCK FALSE
