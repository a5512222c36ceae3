CONSTANTS
  s1 = s1
  s2 = s2
  Stores <- MCStores
  Intervals <- SecondOrThird
  KeepRecent = 1
  PruneInterval = 2
  SnapshotKeep = 1
  MaxHeight = 6
  MaxCrashes = 1
SPECIFICATION Spec
INVARIANT
  InFlightKept
