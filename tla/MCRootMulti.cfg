CONSTANTS
  First = {1, 2, 5}
  UpgradeAt = 3
  Added = {3}
  Deleted = {1}
  Renamed <- OneRename
  Initial = 2
  DynamicAt = 5
  Dynamic = {6}
  Idempotent = TRUE
  LoadsTrees = TRUE
  MaxVersion = 7
  MaxCrashes = 3
  MinTarget = 5
  MaxRollbacks = 2
  CrashInRollback = FALSE
  CrashWhileAdding = FALSE
CHECK_DEADLOCK FALSE
SPECIFICATION Spec
INVARIANTS TypeOK   
 
