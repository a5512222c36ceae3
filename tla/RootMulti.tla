------------------------------ MODULE RootMulti ------------------------------
(***************************************************************************)
(* rootmulti.Store over iavl stores (src/rootmulti/store.go): loading with *)
(* store upgrades, commit store by store with the metadata in a batch at   *)
(* the end, rollback, stores added while it runs, and crashes in between.  *)
(*                                                                         *)
(* The calls that load a tree are commented out (lines 1169, 1171); with   *)
(* LoadsTrees the model is of the code around them, with trees as          *)
(* iavl.LoadStore describes.  Pruning is left to SnapshotPruning.          *)
(***************************************************************************)
EXTENDS Integers, Sequences, FiniteSetsExt

CONSTANTS
  First, UpgradeAt, Added, Deleted, Renamed, Initial,  \* as in AtomicCommits
  DynamicAt,      \* the block that adds Dynamic while it runs, or 0
  Dynamic,        \* the stores it adds
  Idempotent,     \* running a block on its own result changes nothing
  LoadsTrees,
  MaxVersion, MaxCrashes, MaxRollbacks,
  MinTarget,      \* the lowest version rolled back to
  CrashInRollback,  \* the process may stop in a rollback,
  CrashWhileAdding  \* and from the block before the one that adds stores to its commit

Second == (First \ (Deleted \cup {Renamed[n] : n \in DOMAIN Renamed})) \cup Added \cup DOMAIN Renamed

Names == First \cup Second \cup Deleted \cup Dynamic

\* The stores a StoreUpgrades removes: those deleted, and the old names.
Gone == Deleted \cup {Renamed[n] : n \in DOMAIN Renamed}

\* The version of the first block.
FirstVersion == IF Initial > 1 THEN Initial ELSE 1

\* The first binary commits a version before the upgrade, which removes stores it
\* has, each once, and adds stores under names that are new.
ASSUME RootAssumption ==
  /\ {Initial, UpgradeAt, DynamicAt, MaxVersion, MaxCrashes, MaxRollbacks, MinTarget} \subseteq Nat
  /\ {Idempotent, LoadsTrees, CrashInRollback, CrashWhileAdding} \subseteq BOOLEAN
  /\ FirstVersion <= UpgradeAt
  /\ Gone \subseteq First /\ \A n \in DOMAIN Renamed : Renamed[n] \notin Deleted
  /\ \A n, m \in DOMAIN Renamed : Renamed[n] = Renamed[m] => n = m
  /\ Added \cap (First \cup DOMAIN Renamed) = {} /\ DOMAIN Renamed \cap First = {}
  /\ Dynamic \cap (First \cup Added \cup DOMAIN Renamed) = {}

VARIABLES
  (* the database *)
  trees,           \* name -> version -> contents, the versions a tree has saved
  commitInfo,      \* version -> name -> the version of its tree
  latestVersion,
  (* the process *)
  step,            \* what it is doing
  stores,          \* name -> [version, contents, initial], the trees that are loaded
  lastCommitInfo,  \* [version, infos]
  commitHeader,    \* the height it was told of, at the last commit
  removalMap,      \* the names to be removed
  left,            \* the stores a loop has still to visit
  target,          \* of a rollback
  crashes, rollbacks

disk == <<trees, commitInfo, latestVersion>>
process == <<step, stores, lastCommitInfo, commitHeader, removalMap, left, target>>
vars == <<disk, process, crashes, rollbacks>>

NoStores == [n \in {} |-> 0]

NoInfo == [version |-> 0, infos |-> NoStores]

\* The end of the process.
Stop ==
  /\ step' = "down" /\ stores' = NoStores /\ lastCommitInfo' = NoInfo
  /\ commitHeader' = 0 /\ removalMap' = {} /\ left' = {} /\ target' = 0

Put(f, x, y) == [z \in DOMAIN f \cup {x} |-> IF z = x THEN y ELSE f[z]]

Init ==
  /\ trees = [n \in Names |-> NoStores]
  /\ commitInfo = NoStores
  /\ latestVersion = 0
  /\ step = "down"
  /\ stores = NoStores
  /\ lastCommitInfo = NoInfo
  /\ commitHeader = 0 /\ removalMap = {} /\ left = {} /\ target = 0
  /\ crashes = 0 /\ rollbacks = 0

------------------------------------------------------------------------------
(* Trees.  A tree asked for version 0 loads the last it has. *)

CanLoad(n, v) == v = 0 \/ v \in DOMAIN trees[n]

Loaded(n, v, initial) ==
  LET w == IF v = 0 /\ DOMAIN trees[n] # {} THEN Max(DOMAIN trees[n]) ELSE v
  IN  [version |-> w, contents |-> IF w = 0 THEN <<>> ELSE trees[n][w], initial |-> initial]

\* The version a tree saves next.
SaveVersion(t) == IF t.version = 0 /\ t.initial > 0 THEN t.initial ELSE t.version + 1

\* A version that is there already may be saved again with the same contents.
CanSave(n, t) ==
  SaveVersion(t) \in DOMAIN trees[n] => trees[n][SaveVersion(t)] = t.contents

------------------------------------------------------------------------------
(* loadVersion *)

\* What the binary that runs at the latest version mounts, with the stores that
\* were added in earlier blocks.
Mounted(v) ==
  (IF v < UpgradeAt THEN First ELSE IF v = UpgradeAt THEN Second \cup Deleted ELSE Second)
  \cup {n \in Dynamic : v \in DOMAIN commitInfo /\ n \in DOMAIN commitInfo[v]}

\* StoreUpgrades, which are given when the version is the one to upgrade from.
IsAdded(v, n) == v = UpgradeAt /\ n \in Added
IsDeleted(v, n) == v = UpgradeAt /\ n \in Deleted
RenamedFrom(v, n) == IF v = UpgradeAt /\ n \in DOMAIN Renamed THEN {Renamed[n]} ELSE {}

GetCommitID(infos, n) == IF n \in DOMAIN infos THEN infos[n] ELSE 0

VersionMatches(v, infos, n) ==
  IsAdded(v, n) \/ RenamedFrom(v, n) # {} \/ GetCommitID(infos, n) = v

InitialVersion(v, n) == IF IsAdded(v, n) \/ RenamedFrom(v, n) # {} THEN v + 1 ELSE 0

\* A rename that moves nothing.
MovedNothing(v, n, infos) ==
  LET t == Loaded(n, GetCommitID(infos, n), InitialVersion(v, n))
  IN  IF IsDeleted(v, n) THEN [t EXCEPT !.contents = <<>>] ELSE t

\* moveKVStoreData, deleteKVStore
Moved(v, n, infos) ==
  LET t == Loaded(n, GetCommitID(infos, n), InitialVersion(v, n))
      old == {Loaded(o, GetCommitID(infos, o), 0).contents : o \in RenamedFrom(v, n)}
  IN  IF IsDeleted(v, n) THEN [t EXCEPT !.contents = <<>>]
      ELSE IF old = {} THEN t
      ELSE [t EXCEPT !.contents =
              LET o == CHOOSE c \in old : TRUE
              IN  IF Idempotent /\ Len(@) > Len(o) THEN @ ELSE o]

LoadVersion(v) ==
  LET infos == IF v = 0 THEN NoStores ELSE commitInfo[v]
      Olds == UNION {RenamedFrom(v, n) : n \in Mounted(v)}
      Ok == /\ \A n \in Mounted(v) : VersionMatches(v, infos, n) /\ CanLoad(n, GetCommitID(infos, n))
            /\ \A o \in Olds : CanLoad(o, GetCommitID(infos, o))
  IN  IF ~LoadsTrees THEN step' = "no tree" /\ UNCHANGED <<stores, lastCommitInfo, removalMap>>
      ELSE IF ~Ok THEN step' = "load failed" /\ UNCHANGED <<stores, lastCommitInfo, removalMap>>
      ELSE /\ step' = "idle"
           /\ stores' = [n \in Mounted(v) \cup Olds |->
                           IF n \in Olds THEN [Loaded(n, GetCommitID(infos, n), 0) EXCEPT !.contents = <<>>]
                           ELSE Moved(v, n, infos)]
           /\ lastCommitInfo' = [version |-> v, infos |-> infos]
           /\ removalMap' = Olds \cup {n \in Mounted(v) : IsDeleted(v, n)}

\* A start: the stores are mounted, the latest version loaded, and
\* SetInitialVersion called before the first block.
LoadLatestVersion ==
  /\ step = "down"
  /\ LoadVersion(latestVersion)
  /\ UNCHANGED <<disk, commitHeader, left, target, crashes, rollbacks>>

SetInitialVersion ==
  /\ step = "idle" /\ lastCommitInfo.version = 0 /\ Initial > 0
  /\ \A n \in DOMAIN stores : stores[n].initial # Initial
  /\ stores' = [n \in DOMAIN stores |-> [stores[n] EXCEPT !.initial = Initial]]
  /\ UNCHANGED <<disk, step, lastCommitInfo, commitHeader, removalMap, left, target, crashes, rollbacks>>

------------------------------------------------------------------------------
(* A block, and Commit *)

\* A version that does not heed the initial one.
NextVersionFromOne == lastCommitInfo.version + 1

NextVersion ==
  IF lastCommitInfo.version = 0 /\ Initial > 1 THEN Initial ELSE lastCommitInfo.version + 1

Written(c, v) == IF Idempotent /\ c # <<>> /\ c[Len(c)] = v THEN c ELSE Append(c, v)

\* The first binary ends at the version to upgrade from, which it has committed.
Halt ==
  /\ step = "idle" /\ latestVersion = UpgradeAt /\ commitHeader = UpgradeAt
  /\ Stop
  /\ UNCHANGED <<disk, crashes, rollbacks>>

\* Only Second is written to after the upgrade: the other stores are to be removed.
RunBlock ==
  /\ step = "idle" /\ NextVersion <= MaxVersion
  /\ latestVersion = UpgradeAt => commitHeader # UpgradeAt
  /\ lastCommitInfo.version = 0 /\ Initial > 0 => \A n \in DOMAIN stores : stores[n].initial = Initial
  /\ step' = IF NextVersion = DynamicAt THEN "adding" ELSE "ran"
  /\ stores' = [n \in DOMAIN stores |->
                  IF n \in removalMap THEN stores[n]
                  ELSE [stores[n] EXCEPT !.contents = Written(@, NextVersion)]]
  /\ UNCHANGED <<disk, lastCommitInfo, commitHeader, removalMap, left, target, crashes, rollbacks>>

\* DynamicAddNamesapceStore: the store is loaded, saved at once, and then written
\* to.  Behind an inter-block cache its initial version is set to the height of
\* the last commit of this process.
DynamicAddNamesapceStore ==
  LET new == Dynamic \ DOMAIN stores
      At(n) == Loaded(n, 0, commitHeader)
  IN
  /\ step = "adding"
  /\ step' = "ran"
  /\ trees' = [n \in Names |-> IF n \in new THEN Put(trees[n], SaveVersion(At(n)), At(n).contents)
                               ELSE trees[n]]
  /\ stores' = [n \in DOMAIN stores \cup new |->
                  IF n \in new THEN [At(n) EXCEPT !.version = SaveVersion(At(n)),
                                                  !.contents = Written(@, NextVersion)]
                  ELSE stores[n]]
  /\ UNCHANGED <<commitInfo, latestVersion, lastCommitInfo, commitHeader, removalMap, left, target, crashes, rollbacks>>

\* SetCommitHeader, which the application calls before Commit, and Commit.
BeginCommit ==
  /\ step = "ran"
  /\ step' = "commit"
  /\ left' = DOMAIN stores
  /\ commitHeader' = NextVersion
  /\ UNCHANGED <<disk, stores, lastCommitInfo, removalMap, target, crashes, rollbacks>>

\* A commit of a store whatever version it is at.
CommitAlways(t) == FALSE

CommittedAlready(t) == t.version >= NextVersion

\* commitStores, one store, in the order of the names.
CommitStore(n) ==
  LET t == stores[n] IN
  /\ step = "commit" /\ n \in left /\ \A m \in left : n <= m
  /\ IF CommittedAlready(t) THEN UNCHANGED <<trees, stores, step>>
     ELSE IF ~CanSave(n, t) THEN step' = "panicked" /\ UNCHANGED <<trees, stores>>
     ELSE /\ trees' = [trees EXCEPT ![n] = Put(@, SaveVersion(t), t.contents)]
          /\ stores' = [stores EXCEPT ![n].version = SaveVersion(t)]
          /\ UNCHANGED step
  /\ left' = left \ {n}
  /\ UNCHANGED <<commitInfo, latestVersion, lastCommitInfo, commitHeader, removalMap, target, crashes, rollbacks>>

\* The infos of the stores that stay; of one that was committed before, the
\* version of the root store.
Infos(v) ==
  [n \in DOMAIN stores \ removalMap |-> IF stores[n].version >= v THEN v ELSE stores[n].version]

\* A commit that keeps the removal map.
SetLastKeepRemovals ==
  /\ step = "commit" /\ left = {}
  /\ lastCommitInfo' = [version |-> NextVersion, infos |-> Infos(NextVersion)]
  /\ stores' = [n \in DOMAIN stores \ removalMap |-> stores[n]]
  /\ step' = "flush"
  /\ UNCHANGED <<disk, removalMap, commitHeader, left, target, crashes, rollbacks>>

SetLastCommitInfo ==
  /\ step = "commit" /\ left = {}
  /\ lastCommitInfo' = [version |-> NextVersion, infos |-> Infos(NextVersion)]
  /\ stores' = [n \in DOMAIN stores \ removalMap |-> stores[n]]
  /\ removalMap' = {}
  /\ step' = "flush"
  /\ UNCHANGED <<disk, commitHeader, left, target, crashes, rollbacks>>

\* The deferred flushMetadata: both records in one batch.
FlushMetadata ==
  /\ step = "flush"
  /\ commitInfo' = Put(commitInfo, lastCommitInfo.version, lastCommitInfo.infos)
  /\ latestVersion' = lastCommitInfo.version
  /\ step' = "idle"
  /\ UNCHANGED <<trees, stores, lastCommitInfo, commitHeader, removalMap, left, target, crashes, rollbacks>>

------------------------------------------------------------------------------
(* RollbackToVersion *)

BeginRollback(v) ==
  /\ step = "idle" /\ rollbacks < MaxRollbacks /\ v < latestVersion
  /\ step' = "rollback"
  /\ target' = v /\ left' = DOMAIN stores
  /\ rollbacks' = rollbacks + 1
  /\ UNCHANGED <<disk, stores, lastCommitInfo, commitHeader, removalMap, crashes>>

\* LoadVersionForOverwriting, of the stores in any order; an error ends the
\* rollback, and the process, where it is.
OverwriteStore(n) ==
  /\ step = "rollback" /\ n \in left
  /\ IF target \notin DOMAIN trees[n]
     THEN Stop /\ UNCHANGED trees
     ELSE /\ trees' = [trees EXCEPT ![n] = [v \in {w \in DOMAIN @ : w <= target} |-> @[v]]]
          /\ stores' = [stores EXCEPT ![n].version = target, ![n].contents = trees[n][target]]
          /\ left' = left \ {n}
          /\ UNCHANGED <<step, lastCommitInfo, commitHeader, removalMap, target>>
  /\ UNCHANGED <<commitInfo, latestVersion, crashes, rollbacks>>

\* buildCommitInfo of the target with the versions of the trees; then the
\* stores are loaded anew, by the next action.
FlushRollback ==
  /\ step = "rollback" /\ left = {}
  /\ commitInfo' = Put(commitInfo, target, [n \in DOMAIN stores |-> stores[n].version])
  /\ latestVersion' = target
  /\ Stop
  /\ UNCHANGED <<trees, crashes, rollbacks>>

------------------------------------------------------------------------------

\* A store is about to be added, or was in a block that is not committed.
Adding ==
  \/ lastCommitInfo.version = DynamicAt - 1
  \/ lastCommitInfo.version = DynamicAt /\ step = "flush"

Crash ==
  /\ crashes < MaxCrashes
  /\ step \notin {"down", "load failed", "no tree", "panicked"}
  /\ step = "rollback" => CrashInRollback
  /\ DynamicAt > 0 /\ Adding => CrashWhileAdding
  /\ crashes' = crashes + 1
  /\ Stop
  /\ UNCHANGED <<disk, rollbacks>>

Next ==
  \/ LoadLatestVersion \/ SetInitialVersion \/ RunBlock \/ DynamicAddNamesapceStore
  \/ Halt \/ BeginCommit \/ SetLastCommitInfo \/ FlushMetadata \/ FlushRollback \/ Crash
  \/ \E n \in DOMAIN stores : CommitStore(n) \/ OverwriteStore(n)
  \/ \E v \in MinTarget .. MaxVersion : BeginRollback(v)

Spec == Init /\ [][Next]_vars

------------------------------------------------------------------------------
(* Properties *)

TypeOK ==
  /\ step \in {"down", "idle", "adding", "ran", "commit", "flush", "rollback",
               "load failed", "panicked", "no tree"}
  /\ DOMAIN stores \subseteq Names /\ left \subseteq DOMAIN stores /\ removalMap \subseteq DOMAIN stores
  /\ \A n \in DOMAIN stores : stores[n].version \in 0 .. MaxVersion

\* What the database holds, for readers of the metadata.  A rollback counts
\* from the first store it cuts.
Target == IF step = "rollback" /\ left # DOMAIN stores THEN target ELSE latestVersion

Committed ==
  [v \in {0} \cup {w \in DOMAIN commitInfo : w <= Target} |->
     IF v = 0 THEN [n \in First |-> <<>>]
     ELSE [n \in DOMAIN commitInfo[v] |->
             IF commitInfo[v][n] \in DOMAIN trees[n] THEN trees[n][commitInfo[v][n]] ELSE <<0>>]]

Commits == INSTANCE AtomicCommits WITH versions <- Committed, latest <- Target

\* However many times the process stops in a block or a commit, also in the
\* block after an upgrade with some of the new stores saved: what the metadata
\* says is committed is what the blocks wrote, every version all or nothing,
\* and versions are only added, by running the next block on the last one, or
\* cut by a rollback.
ImplementsAtomicCommits == Commits!Spec

\* LoadLatestVersion: "Load the latest persisted version".  The stores can always
\* be loaded again and the next block committed, if the process does not stop in
\* a rollback (CrashInRollback), which cuts the trees one by one and writes the
\* latest version at the end, nor around the block that adds a store
\* (CrashWhileAdding), whose tree is saved before the commit.
StartsAgain == step \notin {"load failed", "panicked", "no tree"}

\* "Commit commits the current store state": between blocks the version in the
\* last commit info holds what the store holds, also of stores that were added
\* while it ran, and of those a block finds already saved when it is run again
\* after a crash, if running it twice changes nothing (Idempotent).
CommitsCurrentState ==
  step = "idle" /\ latestVersion \notin {0, UpgradeAt} =>
    \A n \in DOMAIN Committed[latestVersion] : Committed[latestVersion][n] = stores[n].contents

------------------------------------------------------------------------------
(* The invariant the proofs rest on *)

\* The starts, crashes and rollbacks for which the store keeps its promises: the
\* trees are loaded, a block may be run twice, no crash in a rollback or around
\* the block that adds stores, which the process that committed the block before
\* it runs, and no rollback to before that block or to before the upgrade.
Orderly ==
  /\ LoadsTrees /\ Idempotent /\ ~CrashInRollback /\ ~CrashWhileAdding
  /\ DynamicAt > 0 => DynamicAt > FirstVersion /\ DynamicAt # UpgradeAt + 1
  /\ MinTarget > UpgradeAt /\ MinTarget >= DynamicAt

BlockAfter(v) == IF v = 0 THEN FirstVersion ELSE v + 1

\* The block that is next, whether or not some trees have saved it.
Coming == BlockAfter(latestVersion)

\* The stores a version has, and the blocks that wrote to one by then.
Live(v) ==
  (IF v <= UpgradeAt THEN First ELSE Second) \cup (IF DynamicAt > 0 /\ DynamicAt <= v THEN Dynamic ELSE {})

FirstBlock(n) == IF n \in Added THEN UpgradeAt + 1 ELSE IF n \in Dynamic THEN DynamicAt ELSE FirstVersion

Contents(n, v) == [i \in 1 .. (v - FirstBlock(n) + 1) |-> FirstBlock(n) + i - 1]

\* The stores an upgrade loads without a version: they load the last they have.
New == Added \cup DOMAIN Renamed

Tree == [version : Nat, contents : Seq(Nat), initial : Nat]

ShapeInv ==
  /\ latestVersion = 0 \/ latestVersion \in FirstVersion .. MaxVersion
  /\ DOMAIN trees = Names
  /\ DOMAIN stores \subseteq Names /\ left \subseteq DOMAIN stores /\ removalMap \subseteq DOMAIN stores
  /\ \A n \in DOMAIN stores : stores[n] \in Tree /\ stores[n].version <= MaxVersion
  /\ crashes \in Nat /\ rollbacks \in Nat /\ target \in Nat
  /\ step \in {"down", "idle", "adding", "ran", "commit", "flush", "rollback"}

\* Every version up to the latest is in the metadata, with the stores it has.
InfoInv ==
  /\ \A v \in DOMAIN commitInfo : v \in Nat /\ v >= FirstVersion
  /\ \A v \in FirstVersion .. latestVersion :
       v \in DOMAIN commitInfo /\ commitInfo[v] = [n \in Live(v) |-> v]

\* The trees hold what the blocks wrote in the versions up to the latest, and may
\* hold the one that comes, never more.
TreesInv ==
  /\ \A n \in Names : \A w \in DOMAIN trees[n] :
       /\ w \in Nat \ {0} /\ w <= Coming
       /\ n \in First => w >= FirstVersion
       /\ n \in New => w > UpgradeAt
       /\ n \in Gone => w <= UpgradeAt + 1
  /\ \A v \in FirstVersion .. Target : \A n \in Live(v) :
       v \in DOMAIN trees[n] /\ trees[n][v] = Contents(n, v)
  /\ \A n \in Names : Coming \in DOMAIN trees[n] =>
       /\ Coming <= MaxVersion
       /\ trees[n][Coming] = IF n \in Live(Coming) THEN Contents(n, Coming) ELSE <<>>

\* The stores that are added while the process runs have no tree before, and are
\* added by the process that committed the block before.
DynamicInv ==
  /\ \/ DynamicAt = 0
     \/ Coming < DynamicAt
     \/ Coming = DynamicAt /\ step \in {"idle", "adding"}
     => \A n \in Dynamic : DOMAIN trees[n] = {}
  /\ step = "down" => commitHeader = 0
  /\ commitHeader \in IF step \in {"commit", "flush"} THEN {Coming} ELSE {0, latestVersion}
  /\ Coming = DynamicAt /\ DynamicAt > 0 => step # "down" /\ commitHeader # 0

\* What the stores are, and which a commit will remove.
MountedInv ==
  /\ step = "down" => DOMAIN stores = {} /\ lastCommitInfo = NoInfo
  /\ step \in {"idle", "adding", "ran", "commit", "rollback"} => lastCommitInfo.version = latestVersion
  /\ step = "flush" => lastCommitInfo = [version |-> Coming, infos |-> [n \in Live(Coming) |-> Coming]]
  /\ step \in {"idle", "adding", "rollback"} =>
       DOMAIN stores = IF latestVersion = UpgradeAt /\ commitHeader = 0
                       THEN Live(Coming) \cup Gone ELSE Live(latestVersion)
  /\ step \in {"ran", "commit"} => DOMAIN stores = Live(Coming) \cup removalMap
  /\ step = "flush" => DOMAIN stores = Live(Coming)
  /\ removalMap = IF step \in {"idle", "ran", "commit"} /\ latestVersion = UpgradeAt
                     /\ (step = "idle" => commitHeader = 0)
                  THEN Gone ELSE {}
  /\ step = "adding" => Coming = DynamicAt
  /\ step \in {"adding", "ran", "commit", "flush"} => Coming <= MaxVersion
  /\ step = "rollback" => target >= MinTarget /\ target < latestVersion

\* A tree that has saved the block that comes.
Ahead(n) ==
  stores[n].version = Coming /\ stores[n].contents = Contents(n, Coming) /\ Coming \in DOMAIN trees[n]

\* A store that will save it.
Behind(n) ==
  /\ stores[n].version < Coming /\ SaveVersion(stores[n]) = Coming
  /\ stores[n].contents = IF n \in removalMap THEN <<>> ELSE Contents(n, Coming)

\* A store before the block is run: one that an upgrade, or a first start, found
\* already saved may be ahead.
Fresh(n) ==
  IF n \in removalMap THEN stores[n].version = latestVersion /\ stores[n].contents = <<>>
  ELSE \/ /\ stores[n].contents = Contents(n, Coming - 1)
          /\ \/ stores[n].version = latestVersion /\ (latestVersion = 0 => stores[n].initial \in {0, Initial})
             \/ latestVersion = UpgradeAt /\ stores[n].version = 0 /\ stores[n].initial = Coming
       \/ latestVersion \in {0, UpgradeAt} /\ Ahead(n)

Saved(n) == stores[n].version = Coming /\ Coming \in DOMAIN trees[n]

ContentsInv ==
  \A n \in DOMAIN stores :
    /\ step = "idle" => Fresh(n)
    /\ step = "adding" => Behind(n)
    /\ step = "ran" => Ahead(n) \/ Behind(n)
    /\ step = "commit" /\ n \in left => Ahead(n) \/ Behind(n)
    /\ step = "commit" /\ n \notin left => Saved(n) /\ (n \notin removalMap => Ahead(n))
    /\ step = "flush" => Ahead(n)
    /\ step = "rollback" /\ n \notin left =>
         stores[n].version = target /\ \A w \in DOMAIN trees[n] : w <= target

\* Why a crash between any two steps does no harm: what the metadata names is in
\* every tree, the trees are at most one version ahead, and the stores in memory
\* are ready to save that version or have saved it.  Every step preserves it.
RootInv == ShapeInv /\ InfoInv /\ TreesInv /\ DynamicInv /\ MountedInv /\ ContentsInv
==============================================================================
