CONSTANTS
  W64 = 16
  W32 = 8
  Nil = Nil
  Types = {"Snapshot", "Metadata", "SnapshotItem", "SnapshotStoreItem", "SnapshotIAVLItem",
           "SnapshotExtensionMeta", "SnapshotExtensionPayload", "CommitInfo", "StoreInfo", "CommitID",
           "StoreKVPair", "BlockMetadata", "Pairs", "Pair", "ListenFinalizeBlockRequest",
           "ListenCommitRequest", "ListenCommitResponse"}
  Messages <- Sent
  Unknown <- Later
  LongBytes = TRUE
CHECK_DEADLOCK FALSE
SPECIFICATION Spec
INVARIANTS SizeIsExact ReadsWhatWasSent NoSpuriousError CutIsCaught NodesAreRestored
PROPERTY UnmarshalAdvances
