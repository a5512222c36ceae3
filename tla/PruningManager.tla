---------------------------- MODULE PruningManager ----------------------------
(***************************************************************************)
(* pruning.Manager (src/pruning/manager.go): up to which height old        *)
(* versions may go, given the state sync snapshots that have ended.        *)
(*                                                                         *)
(* The list pruneSnapshotHeights is sorted whenever the lock is free, so   *)
(* it is given here by how often each height is in it.  The strategy       *)
(* "nothing", under which every operation does nothing, is left out.       *)
(***************************************************************************)
EXTENDS Integers

CONSTANTS
  KeepRecent,     \* opts.KeepRecent
  PruneInterval,  \* opts.Interval
  MaxHeight       \* bound on the heights

Height == 0 .. MaxHeight

ASSUME PruningAssumption ==
  /\ KeepRecent \in Nat \ {0}  \* PruningOptions.Validate asks for 2
  /\ PruneInterval \in Nat \ {0}
  /\ MaxHeight \in Nat

VARIABLES
  snapshotInterval,      \* 0 if no snapshots are taken
  pruneSnapshotHeights,  \* height -> how often it is in the list
  savedHeights           \* the list on disk

managerVars == <<snapshotInterval, pruneSnapshotHeights, savedHeights>>

\* A height twice in the list stops the loop as a missing one does.
Listed(hs) == {h \in Height : hs[h] > 0}

Least(S) == CHOOSE h \in S : \A g \in S : h <= g

NoHeights == [h \in Height |-> 0]
NewHeights == [h \in Height |-> IF h = 0 THEN 1 ELSE 0]

InitManager(intervals) ==
  /\ snapshotInterval \in intervals
  /\ pruneSnapshotHeights = NewHeights
  /\ savedHeights = NoHeights

\* The loop of HandleSnapshotHeight passes g: the next entry is one interval on
\* (snapshots are taken, so the interval is not 0).
Passes(hs, g) ==
  /\ hs[g] = 1
  /\ g + snapshotInterval \in Listed(hs)
  /\ \A h \in Listed(hs) : h <= g \/ h >= g + snapshotInterval

\* A loop that does not stop at a gap; one that drops the entry it stops at.
TrimToLast(hs) == [h \in Height |-> IF \E g \in Listed(hs) : g > h THEN 0 ELSE hs[h]]
TrimAll(hs) ==
  LET n == Least({g \in Listed(hs) : ~Passes(hs, g)})
  IN  [h \in Height |-> IF h <= n THEN 0 ELSE hs[h]]

\* The list from the entry at which the loop stops.
Trim(hs) ==
  LET n == Least({g \in Listed(hs) : ~Passes(hs, g)})
  IN  [h \in Height |-> IF h < n THEN 0 ELSE hs[h]]

\* A HandleSnapshotHeight that does not write to disk.
HandleUnsaved(h) ==
  /\ pruneSnapshotHeights' = Trim([pruneSnapshotHeights EXCEPT ![h] = @ + 1])
  /\ UNCHANGED <<savedHeights, snapshotInterval>>

\* HandleSnapshotHeight for a height above 0, under the lock: append, sort,
\* trim and write to disk.
HandleSnapshotHeight(h) ==
  /\ pruneSnapshotHeights' = Trim([pruneSnapshotHeights EXCEPT ![h] = @ + 1])
  /\ savedHeights' = pruneSnapshotHeights'
  /\ UNCHANGED snapshotInterval

\* GetPruningHeight, given the bounds that the recent heights and the first
\* entry of the list set.
Lower(recent, first) ==
  IF snapshotInterval = 0 THEN recent
  ELSE IF Listed(pruneSnapshotHeights) = {} THEN 0
  ELSE IF first < recent THEN first ELSE recent

IsPruningHeight(height) == height % PruneInterval = 0 /\ height > KeepRecent

FirstListed == Least(Listed(pruneSnapshotHeights))

\* A GetPruningHeight that reaches the next snapshot; that keeps one less.
PruneNextSnapshot(height) ==
  IF IsPruningHeight(height)
  THEN Lower(height - 1 - KeepRecent, FirstListed + snapshotInterval) ELSE 0
PruneOneMore(height) ==
  IF IsPruningHeight(height)
  THEN Lower(height - KeepRecent, FirstListed + snapshotInterval - 1) ELSE 0

\* The height up to which Commit of a height may prune; 0 for not at all.
GetPruningHeight(height) ==
  IF IsPruningHeight(height)
  THEN Lower(height - 1 - KeepRecent, FirstListed + snapshotInterval - 1) ELSE 0

\* A new manager, with LoadSnapshotHeights, after a restart.
Reload(intervals) ==
  /\ snapshotInterval' \in intervals
  /\ pruneSnapshotHeights' =
       IF Listed(savedHeights) = {} THEN NewHeights ELSE savedHeights
  /\ UNCHANGED savedHeights
==============================================================================
