CONSTANTS
  s1 = s1
  s2 = s2
  Stores <- MCStores
  Intervals <- EverySecond
  KeepRecent = 1
  PruneInterval = 2
  SnapshotKeep = 1
  MaxHeight = 7
  MaxCrashes = 2
SYMMETRY Symmetry
SPECIFICATION Spec
INVARIANTS
  TypeOK
  InFlightKept
  KeepsRecent
  PruneInv
PROPERTY BoundGrows
