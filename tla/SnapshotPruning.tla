--------------------------- MODULE SnapshotPruning ---------------------------
(***************************************************************************)
(* Commit and pruning in rootmulti.Store, against the snapshots that       *)
(* snapshots.Manager takes in goroutines of its own                        *)
(* (src/rootmulti/store.go, src/snapshots/manager.go and store.go), with   *)
(* crashes at any point.                                                   *)
(*                                                                         *)
(* The application, which is not part of the repository, calls Commit and  *)
(* then SnapshotIfApplicable for the height.  The stores below are IAVL    *)
(* trees: a set of versions on disk, external to the repository.  Stores   *)
(* are committed, pruned and exported in any order.                        *)
(***************************************************************************)
EXTENDS PruningManager, FiniteSets

CONSTANTS
  Stores,       \* the IAVL stores that are mounted
  Intervals,    \* snapshot intervals the node may be started with
  SnapshotKeep, \* snapshots to keep, 0 for all (SnapshotOptions.KeepRecent)
  MaxCrashes    \* bound on the crashes

ASSUME NodeAssumption ==
  /\ Intervals \subseteq Nat
  /\ SnapshotKeep \in Nat
  /\ MaxCrashes \in Nat

VARIABLES
  versions,       \* store -> versions on disk
  latestVersion,  \* s/latest on disk, written by flushMetadata
  version,        \* lastCommitInfo.Version, or the one Commit is working on
  step,           \* where Commit stands
  pruneTo,        \* height it prunes up to
  left,           \* stores its loops still have to visit
  snap,           \* height -> where the goroutine that snapshots it stands
  toExport,       \* height -> stores still to be exported
  operation,      \* Manager.operation
  snapshots,      \* heights of the snapshots in the snapshot store
  crashes

commitVars == <<versions, latestVersion, version, step, pruneTo, left>>
snapVars == <<snap, toExport, operation, snapshots>>
vars == <<managerVars, commitVars, snapVars, crashes>>

Idle == [h \in Height |-> "none"]
NoExport == [h \in Height |-> {}]

Init ==
  /\ InitManager(Intervals)
  /\ versions = [s \in Stores |-> {}]
  /\ latestVersion = 0
  /\ version = 0
  /\ step = "idle"
  /\ pruneTo = 0
  /\ left = {}
  /\ snap = Idle
  /\ toExport = NoExport
  /\ operation = "none"
  /\ snapshots = {}
  /\ crashes = 0

------------------------------------------------------------------------------
(* Commit *)

BeginCommit ==
  /\ step = "idle"
  /\ version < MaxHeight
  /\ version' = version + 1
  /\ step' = "commit"
  /\ left' = Stores
  /\ UNCHANGED <<managerVars, versions, latestVersion, pruneTo, snapVars, crashes>>

\* commitStores, one store.  One that has the version already, from before a
\* crash, is left as it is.
CommitStore(s) ==
  /\ step = "commit"
  /\ s \in left
  /\ versions' = [versions EXCEPT ![s] = @ \cup {version}]
  /\ left' = left \ {s}
  /\ UNCHANGED <<managerVars, latestVersion, version, step, pruneTo, snapVars, crashes>>

\* handlePruning asks for the height.
StartPruning ==
  /\ step = "commit"
  /\ left = {}
  /\ step' = "prune"
  /\ pruneTo' = GetPruningHeight(version)
  /\ left' = IF pruneTo' > 0 THEN Stores ELSE {}
  /\ UNCHANGED <<managerVars, versions, latestVersion, version, snapVars, crashes>>

\* PruneStores, one store, in the order of a map.  Whether the tree deletes
\* one version or all up to it is up to the library; another error of it is
\* logged and the store left as it is.
DeleteVersionsTo(s) ==
  /\ step = "prune"
  /\ s \in left
  /\ pruneTo \in versions[s]
  /\ \E D \in {{}, {pruneTo}, 1 .. pruneTo} :
       versions' = [versions EXCEPT ![s] = @ \ D]
  /\ left' = left \ {s}
  /\ UNCHANGED <<managerVars, latestVersion, version, step, pruneTo, snapVars, crashes>>

\* ErrVersionDoesNotExist: PruneStores returns, Commit logs it and goes on.
StopPruning(s) ==
  /\ step = "prune"
  /\ s \in left
  /\ pruneTo \notin versions[s]
  /\ left' = {}
  /\ UNCHANGED <<managerVars, versions, latestVersion, version, step, pruneTo,
                 snapVars, crashes>>

\* The deferred flushMetadata.
FlushMetadata ==
  /\ step = "prune"
  /\ left = {}
  /\ latestVersion' = version
  /\ pruneTo' = 0
  /\ step' = "committed"
  /\ UNCHANGED <<managerVars, versions, version, left, snapVars, crashes>>

ShouldTakeSnapshot(h) == snapshotInterval > 0 /\ h % snapshotInterval = 0

SnapshotIfApplicable ==
  /\ step = "committed"
  /\ step' = "idle"
  /\ snap' = IF ShouldTakeSnapshot(version)
             THEN [snap EXCEPT ![version] = "spawned"] ELSE snap
  /\ UNCHANGED <<managerVars, versions, latestVersion, version, pruneTo, left,
                 toExport, operation, snapshots, crashes>>

------------------------------------------------------------------------------
(* The goroutine that snapshots a height: Create, then Prune *)

\* begin fails on another operation; PruneSnapshotHeight is deferred all the
\* same.
BeginFails(h) ==
  /\ snap[h] = "spawned"
  /\ operation # "none"
  /\ snap' = [snap EXCEPT ![h] = "failed"]
  /\ UNCHANGED <<managerVars, commitVars, toExport, operation, snapshots, crashes>>

Begin(h) ==
  /\ snap[h] = "spawned"
  /\ operation = "none"
  /\ operation' = "snapshot"
  /\ snap' = [snap EXCEPT ![h] = "begun"]
  /\ UNCHANGED <<managerVars, commitVars, toExport, snapshots, crashes>>

\* There is no snapshot as high: the export starts.
Create(h) ==
  /\ snap[h] = "begun"
  /\ \A g \in snapshots : g < h
  /\ snap' = [snap EXCEPT ![h] = "exporting"]
  /\ toExport' = [toExport EXCEPT ![h] = Stores]
  /\ UNCHANGED <<managerVars, commitVars, operation, snapshots, crashes>>

\* rootmulti.Store.Snapshot, one store.
Export(h, s) ==
  /\ snap[h] = "exporting"
  /\ s \in toExport[h]
  /\ h \in versions[s]
  /\ toExport' = [toExport EXCEPT ![h] = @ \ {s}]
  /\ UNCHANGED <<managerVars, commitVars, snap, operation, snapshots, crashes>>

\* There is a snapshot as high, or GetLatest, an export or Save fails: end.
CreateFails(h) ==
  /\ snap[h] \in {"begun", "exporting"}
  /\ snap' = [snap EXCEPT ![h] = "failed"]
  /\ toExport' = [toExport EXCEPT ![h] = {}]
  /\ operation' = "none"
  /\ UNCHANGED <<managerVars, commitVars, snapshots, crashes>>

\* Save has all chunks and stores the record; end.
Save(h) ==
  /\ snap[h] = "exporting"
  /\ toExport[h] = {}
  /\ snapshots' = snapshots \cup {h}
  /\ snap' = [snap EXCEPT ![h] = "saved"]
  /\ operation' = "none"
  /\ UNCHANGED <<managerVars, commitVars, toExport, crashes>>

\* The deferred PruneSnapshotHeight, the last thing Create does.
PruneSnapshotHeight(h) ==
  /\ snap[h] \in {"failed", "saved"}
  /\ HandleSnapshotHeight(h)
  /\ snap' = [snap EXCEPT ![h] =
                IF @ = "saved" /\ SnapshotKeep > 0 THEN "handled" ELSE "none"]
  /\ UNCHANGED <<commitVars, toExport, operation, snapshots, crashes>>

\* Prune of old snapshots, unless another operation is in progress.
PruneFails(h) ==
  /\ snap[h] = "handled"
  /\ operation # "none"
  /\ snap' = [snap EXCEPT ![h] = "none"]
  /\ UNCHANGED <<managerVars, commitVars, toExport, operation, snapshots, crashes>>

BeginPrune(h) ==
  /\ snap[h] = "handled"
  /\ operation = "none"
  /\ operation' = "prune"
  /\ snap' = [snap EXCEPT ![h] = "pruning"]
  /\ UNCHANGED <<managerVars, commitVars, toExport, snapshots, crashes>>

\* The snapshots that Prune retains.
Retained == {g \in snapshots : Cardinality({k \in snapshots : k > g}) < SnapshotKeep}

\* The highest of the others is deleted.
PruneSnapshot(h) ==
  /\ snap[h] = "pruning"
  /\ \E g \in snapshots \ Retained :
       /\ \A k \in snapshots \ Retained : k <= g
       /\ snapshots' = snapshots \ {g}
  /\ UNCHANGED <<managerVars, commitVars, snap, toExport, operation, crashes>>

\* All are deleted, or one could not be: end.
EndPrune(h) ==
  /\ snap[h] = "pruning"
  /\ operation' = "none"
  /\ snap' = [snap EXCEPT ![h] = "none"]
  /\ UNCHANGED <<managerVars, commitVars, toExport, snapshots, crashes>>

Goroutine(h) ==
  \/ BeginFails(h)
  \/ Begin(h)
  \/ Create(h)
  \/ \E s \in Stores : Export(h, s)
  \/ CreateFails(h)
  \/ Save(h)
  \/ PruneSnapshotHeight(h)
  \/ PruneFails(h)
  \/ BeginPrune(h)
  \/ PruneSnapshot(h)
  \/ EndPrune(h)

------------------------------------------------------------------------------
(* Crash and restart *)

\* What is in memory is lost; the node starts again with loadVersion of the
\* latest version, which needs that version in every store.
Crash ==
  /\ crashes < MaxCrashes
  /\ crashes' = crashes + 1
  /\ latestVersion > 0 => \A s \in Stores : latestVersion \in versions[s]
  /\ version' = latestVersion
  /\ step' = "idle"
  /\ pruneTo' = 0
  /\ left' = {}
  /\ snap' = Idle
  /\ toExport' = NoExport
  /\ operation' = "none"
  /\ Reload(Intervals)
  /\ UNCHANGED <<versions, latestVersion, snapshots>>

CommitNext ==
  \/ BeginCommit
  \/ \E s \in Stores : CommitStore(s) \/ DeleteVersionsTo(s) \/ StopPruning(s)
  \/ StartPruning
  \/ FlushMetadata
  \/ SnapshotIfApplicable

\* The bound on heights is reached and nothing is under way.
Done ==
  /\ version = MaxHeight
  /\ step = "idle"
  /\ snap = Idle
  /\ UNCHANGED vars

Next == CommitNext \/ (\E h \in Height : Goroutine(h)) \/ Crash \/ Done

Spec == Init /\ [][Next]_vars

------------------------------------------------------------------------------
(* Properties *)

\* Types, and that HandleSnapshotHeight never empties the list, with which
\* GetPruningHeight would return 0 from then on ("the length should be greater
\* than zero").
TypeOK ==
  /\ snapshotInterval \in Intervals
  /\ pruneSnapshotHeights \in [Height -> Nat]
  /\ Listed(pruneSnapshotHeights) # {}
  /\ savedHeights \in [Height -> Nat]
  /\ versions \in [Stores -> SUBSET Height]
  /\ latestVersion \in Height
  /\ version \in Height
  /\ step \in {"idle", "commit", "prune", "committed"}
  /\ pruneTo \in Height
  /\ left \subseteq Stores
  /\ snap \in [Height -> {"none", "spawned", "begun", "exporting", "failed",
                          "saved", "handled", "pruning"}]
  /\ toExport \in [Height -> SUBSET Stores]
  /\ operation \in {"none", "snapshot", "prune"}
  /\ snapshots \subseteq Height
  /\ crashes \in 0 .. MaxCrashes

\* The stores of which the snapshot of h still needs the version.
Needs(h) == CASE snap[h] \in {"spawned", "begun"} -> Stores
              [] snap[h] = "exporting" -> toExport[h]
              [] OTHER -> {}

\* "This is done to prevent a height from being removed before a snapshot is
\* complete": as long as a snapshot is under way, Commit does not prune its
\* version from a store it has still to export, however late the goroutine is,
\* in whatever order snapshots end, and across crashes.
InFlightKept == \A h \in Height : \A s \in Needs(h) : h \in versions[s]

\* "pruning-keep-recent: N means to keep all of the last N states", counted
\* from the version the metadata on disk names: a node that crashes at any
\* point, between pruning and flushMetadata too, can load that version.
KeepsRecent ==
  \A h \in 1 .. latestVersion :
    h > latestVersion - KeepRecent => \A s \in Stores : h \in versions[s]

\* "flush the updates to disk so that they are not lost if crash happens": the
\* entry that bounds pruning never moves back, not across a restart either.
BoundGrows == [][FirstListed' >= FirstListed]_vars

\* The snapshot of h has been asked for and its height not been handed over.
InFlight(h) == snap[h] \in {"spawned", "begun", "exporting", "failed", "saved"}

\* Where Commit stands: version and latestVersion, what the stores have of the
\* version, and that a version to prune is neither recent nor in flight.
CommitInv ==
  /\ step \in {"idle", "committed"} => version = latestVersion /\ left = {}
  /\ step \in {"commit", "prune"} => version = latestVersion + 1
  /\ step = "commit" => \A s \in Stores \ left : version \in versions[s]
  /\ step = "prune" =>
       /\ \A s \in Stores : version \in versions[s]
       /\ pruneTo <= version - 1 - KeepRecent \/ pruneTo = 0
       /\ \A h \in Height : InFlight(h) => pruneTo < h

\* The heights in the list and in flight: multiples of the interval that have
\* been committed, no height in both, and all in flight beyond the first entry.
HeightsInv ==
  /\ \A h \in Height : InFlight(h) =>
       /\ ShouldTakeSnapshot(h)
       /\ h <= latestVersion
       /\ pruneSnapshotHeights[h] = 0
       /\ FirstListed < h
  /\ \A h \in Listed(pruneSnapshotHeights) :
       /\ h <= latestVersion
       /\ snapshotInterval > 0 => h % snapshotInterval = 0
  /\ step = "committed" => ~InFlight(version) /\ pruneSnapshotHeights[version] = 0
  /\ IF Listed(savedHeights) = {} THEN pruneSnapshotHeights = NewHeights
     ELSE savedHeights = pruneSnapshotHeights

\* Why InFlightKept and KeepsRecent hold, inductively, for a node that keeps
\* its snapshot interval.
PruneInv == CommitInv /\ HeightsInv /\ InFlightKept /\ KeepsRecent

\* The height of a snapshot that is complete "will be pruned at the first
\* height h that satisfied the following conditions: the snapshot is complete,
\* h is a multiple of pruning-interval, snapshot height is less than h -
\* pruning-keep-recent", at least when no other snapshot is under way.
CompleteIsPruned ==
  [][StartPruning /\ IsPruningHeight(version) /\ snap = Idle =>
       \A h \in snapshots : h < version - KeepRecent => h <= pruneTo']_vars
==============================================================================
