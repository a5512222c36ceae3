--------------------------- MODULE RootMultiLemmas ---------------------------
(***************************************************************************)
(* What the blocks write to the stores of rootmulti.Store, which stores a  *)
(* version has, and the steps that keep RootInv: those up to the commit of *)
(* a block, the commit, a rollback, and a start at a version that no       *)
(* upgrade follows.  RootMultiProofs has the other start and the theorems. *)
(***************************************************************************)
EXTENDS RootMulti, TLAPS

------------------------------------------------------------------------------
(* What the blocks write to a store *)

\* The constants are numbers, and the first version is not 0.
LEMMA Numbers ==
  /\ FirstVersion \in Nat \ {0} /\ FirstVersion <= UpgradeAt
  /\ UpgradeAt \in Nat \ {0} /\ DynamicAt \in Nat /\ MinTarget \in Nat /\ MaxVersion \in Nat
  /\ Initial \in Nat /\ MaxCrashes \in Nat /\ MaxRollbacks \in Nat
  /\ \A n : FirstBlock(n) \in Nat
BY RootAssumption DEF RootAssumption, FirstVersion, FirstBlock

\* Sequences with the same elements are the same.
LEMMA SameElements ==
  ASSUME NEW s \in Seq(Nat), NEW t \in Seq(Nat), Len(s) = Len(t),
         \A i \in 1 .. Len(s) : s[i] = t[i]
  PROVE  s = t
OBVIOUS

\* The contents of a store are a sequence of heights.
LEMMA ContentsSeq ==
  ASSUME NEW n, NEW v \in Nat, FirstBlock(n) <= v + 1
  PROVE  Contents(n, v) \in Seq(Nat) /\ Len(Contents(n, v)) = v - FirstBlock(n) + 1
<1> DEFINE k == v - FirstBlock(n) + 1
<1>1. k \in Nat
  BY Numbers
<1>2. \A i \in 1 .. k : FirstBlock(n) + i - 1 \in Nat
  BY Numbers
<1> QED
  BY <1>1, <1>2 DEF Contents

\* Before its first block a store is empty.
LEMMA ContentsEmpty ==
  ASSUME NEW n, NEW v \in Nat, FirstBlock(n) = v + 1
  PROVE  Contents(n, v) = <<>>
BY ContentsSeq, Numbers DEF Contents

\* A block appends its height.
LEMMA ContentsNext ==
  ASSUME NEW n, NEW v \in Nat, FirstBlock(n) <= v + 1
  PROVE  Append(Contents(n, v), v + 1) = Contents(n, v + 1)
<1> DEFINE k == v - FirstBlock(n) + 1
<1>1. k \in Nat /\ k + 1 = (v + 1) - FirstBlock(n) + 1 /\ FirstBlock(n) \in Nat
  BY Numbers
<1>2. Contents(n, v) \in Seq(Nat) /\ Len(Contents(n, v)) = k
  BY ContentsSeq, Zenon
<1>3. Contents(n, v + 1) \in Seq(Nat) /\ Len(Contents(n, v + 1)) = k + 1
  BY <1>1, ContentsSeq
<1>4. \A i \in 1 .. k + 1 : Append(Contents(n, v), v + 1)[i] = Contents(n, v + 1)[i]
  BY <1>1, <1>2 DEF Contents
<1>5. Append(Contents(n, v), v + 1) \in Seq(Nat) /\ Len(Append(Contents(n, v), v + 1)) = k + 1
  BY <1>2
<1> QED
  BY <1>3, <1>4, <1>5, SameElements, Zenon

\* A block writes the same when it is run on its own result.
LEMMA WrittenOnce ==
  ASSUME NEW n, NEW v \in Nat, FirstBlock(n) <= v + 1, Idempotent
  PROVE  /\ Written(Contents(n, v), v + 1) = Contents(n, v + 1)
         /\ Written(Contents(n, v + 1), v + 1) = Contents(n, v + 1)
<1> DEFINE k == v - FirstBlock(n) + 1
<1>1. k \in Nat /\ k + 1 = (v + 1) - FirstBlock(n) + 1 /\ FirstBlock(n) \in Nat
  BY Numbers
<1>2. Contents(n, v) \in Seq(Nat) /\ Len(Contents(n, v)) = k
  BY ContentsSeq, Zenon
<1>3. Contents(n, v + 1) \in Seq(Nat) /\ Len(Contents(n, v + 1)) = k + 1
  BY <1>1, ContentsSeq
<1>4. Contents(n, v) # <<>> => Contents(n, v)[Len(Contents(n, v))] = v
  BY <1>1, <1>2 DEF Contents
<1>5. Contents(n, v + 1) # <<>> /\ Contents(n, v + 1)[Len(Contents(n, v + 1))] = v + 1
  <2>1. Contents(n, v + 1)[k + 1] = v + 1
    BY <1>1 DEF Contents
  <2> QED
    BY <2>1, <1>1, <1>3
<1> QED
  BY <1>4, <1>5, ContentsNext, Zenon DEF Written

------------------------------------------------------------------------------
(* The stores of a version *)

\* The names an upgrade removes, keeps and adds are apart.
LEMMA NamesApart ==
  /\ Second = (First \ Gone) \cup New
  /\ Gone \subseteq First /\ New \cap First = {}
  /\ Dynamic \cap (First \cup New) = {}
  /\ Names = First \cup New \cup Dynamic
BY RootAssumption, Zenon DEF RootAssumption, Names, Second, Gone, New

\* A store is first written to no later than the first version that has it.
LEMMA FirstBlocks ==
  /\ \A n \in First \cup DOMAIN Renamed : FirstBlock(n) = FirstVersion
  /\ \A n \in Added : FirstBlock(n) = UpgradeAt + 1
  /\ \A n \in Dynamic : FirstBlock(n) = DynamicAt
BY RootAssumption, Zenon DEF RootAssumption, FirstBlock

\* A store of a version has been written to by then.
LEMMA WrittenWhenLive ==
  ASSUME NEW v \in Nat, v >= FirstVersion, NEW n \in Live(v)
  PROVE  FirstBlock(n) <= v
BY Numbers, NamesApart, FirstBlocks DEF Live, New

\* The stores are the same from a version to the next, but for an upgrade and for
\* the block that adds stores.
LEMMA LiveNext ==
  ASSUME NEW v \in Nat, v # UpgradeAt, v + 1 # DynamicAt
  PROVE  Live(v + 1) = Live(v)
BY Numbers DEF Live

\* The stores of every version are among the names there are.
LEMMA LiveNames ==
  ASSUME NEW v \in Nat
  PROVE  Live(v) \subseteq Names
BY NamesApart, Zenon DEF Live

\* What the upgrade adds is new to it, what it removes was there, and the stores that
\* blocks add stay.
LEMMA LiveUpgraded ==
  ASSUME Orderly
  PROVE  /\ Live(UpgradeAt + 1) = Second \cup (Live(UpgradeAt) \cap Dynamic)
         /\ Live(UpgradeAt) = First \cup (Live(UpgradeAt) \cap Dynamic)
         /\ Gone \cap Live(UpgradeAt + 1) = {} /\ Gone \subseteq Live(UpgradeAt)
         /\ New \cap Live(UpgradeAt) = {} /\ New \subseteq Live(UpgradeAt + 1)
         /\ Live(UpgradeAt + 1) \ New \subseteq Live(UpgradeAt)
         /\ Live(UpgradeAt + 1) \ New = Live(UpgradeAt) \ Gone
<1>1. \/ DynamicAt > 0 /\ DynamicAt <= UpgradeAt /\ DynamicAt <= UpgradeAt + 1
      \/ ~(DynamicAt > 0 /\ DynamicAt <= UpgradeAt) /\ ~(DynamicAt > 0 /\ DynamicAt <= UpgradeAt + 1)
  BY Numbers DEF Orderly
<1>2. UpgradeAt <= UpgradeAt /\ ~(UpgradeAt + 1 <= UpgradeAt)
  BY Numbers
<1> QED
  BY <1>1, <1>2, NamesApart, Zenon DEF Live

\* The first version has the stores of the first binary, and the versions a
\* rollback may choose have those of the latest.
LEMMA LiveAtEnds ==
  ASSUME Orderly
  PROVE  /\ Live(0) = First /\ Live(FirstVersion) = First
         /\ \A v, w \in Nat : v >= MinTarget /\ w >= v => Live(w) = Live(v)
         /\ \A v \in Nat : v >= MinTarget => Names \ Gone \subseteq Live(v) \cup {n \in Dynamic : DynamicAt = 0}
BY Numbers, NamesApart DEF Orderly, Live

------------------------------------------------------------------------------
(* The invariant *)

\* The block that comes follows the latest version, and is the one Commit makes.
LEMMA ComingBlock ==
  ASSUME ShapeInv
  PROVE  /\ latestVersion \in Nat /\ Coming \in Nat \ {0} /\ Coming > latestVersion
         /\ Coming >= FirstVersion
         /\ latestVersion = 0 => Coming = FirstVersion
         /\ latestVersion # 0 => Coming = latestVersion + 1 /\ latestVersion >= FirstVersion
         /\ lastCommitInfo.version = latestVersion => NextVersion = Coming
BY Numbers DEF ShapeInv, Coming, BlockAfter, NextVersion, FirstVersion

\* A database without a version, before the first start.
LEMMA InitiallyRootInv ==
  ASSUME Orderly, Init
  PROVE  RootInv
<1>1. ShapeInv
  BY NamesApart, Zenon DEF Init, ShapeInv, NoStores
<1>2. Coming = FirstVersion /\ FirstVersion \in Nat \ {0} /\ latestVersion = 0
  BY <1>1, ComingBlock, Numbers, Zenon DEF Init
<1>3. InfoInv
  BY <1>2 DEF InfoInv, Init, NoStores
<1>4. TreesInv
  <2>1. Target = 0
    BY Zenon DEF Target, Init
  <2>2. \A n \in Names : DOMAIN trees[n] = {}
    BY Zenon DEF Init, NoStores
  <2> QED
    BY <1>2, <2>1, <2>2 DEF TreesInv
<1>5. DynamicInv
  <2>1. \A n \in Dynamic : DOMAIN trees[n] = {}
    BY NamesApart, Zenon DEF Init, NoStores
  <2> QED
    BY <2>1, <1>2, Numbers DEF DynamicInv, Init, Orderly
<1>6. MountedInv
  BY Zenon DEF MountedInv, Init, NoStores
<1>7. ContentsInv
  BY Zenon DEF ContentsInv, Init, NoStores
<1> QED
  BY <1>1, <1>3, <1>4, <1>5, <1>6, <1>7, Zenon DEF RootInv

\* What is said of the database depends on the database alone.
LEMMA DiskFrame ==
  ASSUME RootInv, UNCHANGED disk, Target' = Target
  PROVE  InfoInv' /\ TreesInv' /\ Coming' = Coming
<1>1. trees' = trees /\ commitInfo' = commitInfo /\ latestVersion' = latestVersion
  BY Zenon DEF disk
<1>2. Coming' = Coming
  BY <1>1, Zenon DEF Coming
<1>3. InfoInv'
  BY <1>1, Zenon DEF RootInv, InfoInv
<1>4. TreesInv'
  BY <1>1, <1>2, Zenon DEF RootInv, TreesInv
<1> QED
  BY <1>2, <1>3, <1>4, Zenon

\* The process stops: nothing is left but the database.
LEMMA StopStep ==
  ASSUME RootInv, Orderly, Stop, UNCHANGED disk, Target = latestVersion,
         crashes' \in Nat, rollbacks' \in Nat, DynamicAt > 0 => latestVersion # DynamicAt - 1
  PROVE  RootInv'
<1>1. trees' = trees /\ commitInfo' = commitInfo /\ latestVersion' = latestVersion
  BY Zenon DEF disk
<1>2. Target' = latestVersion /\ Target' = Target
  BY <1>1, Zenon DEF Target, Stop
<1>3. InfoInv' /\ TreesInv' /\ Coming' = Coming
  BY <1>2, DiskFrame, Zenon
<1>4. ShapeInv'
  BY <1>1, Zenon DEF RootInv, ShapeInv, Stop, NoStores
<1>5. DynamicInv'
  <2>1. /\ Coming \in Nat /\ (latestVersion = 0 => Coming = FirstVersion)
        /\ (latestVersion # 0 => Coming = latestVersion + 1) /\ latestVersion \in Nat
    BY ComingBlock, Zenon DEF RootInv
  <2>2. Coming = DynamicAt => DynamicAt = 0
    BY <2>1, Numbers DEF Orderly
  <2> QED
    BY <1>1, <1>3, <2>1, <2>2 DEF RootInv, DynamicInv, Stop
<1>6. MountedInv'
  BY Zenon DEF MountedInv, Stop, NoStores
<1>7. ContentsInv'
  BY Zenon DEF ContentsInv, Stop, NoStores
<1> QED
  BY <1>3, <1>4, <1>5, <1>6, <1>7, Zenon DEF RootInv

\* The stop for the upgrade keeps the invariant.
LEMMA HaltStep ==
  ASSUME RootInv, Orderly, Halt
  PROVE  RootInv'
<1>1. Stop /\ UNCHANGED disk /\ step = "idle" /\ latestVersion = UpgradeAt /\ UNCHANGED <<crashes, rollbacks>>
  BY Zenon DEF Halt
<1>2. crashes' \in Nat /\ rollbacks' \in Nat
  BY <1>1, Zenon DEF RootInv, ShapeInv
<1>3. Target = latestVersion /\ (DynamicAt > 0 => latestVersion # DynamicAt - 1)
  BY <1>1, Numbers DEF Target, Orderly
<1> QED
  BY <1>1, <1>2, <1>3, StopStep, Zenon

\* A crash in the middle of a block, a commit or before the flush keeps it.
LEMMA CrashStep ==
  ASSUME RootInv, Orderly, Crash
  PROVE  RootInv'
<1>1. /\ Stop /\ UNCHANGED disk /\ crashes' = crashes + 1 /\ rollbacks' = rollbacks
      /\ step \notin {"down", "rollback"}
  BY Zenon DEF Crash, Orderly
<1>2. crashes' \in Nat /\ rollbacks' \in Nat
  BY <1>1 DEF RootInv, ShapeInv
<1>3. Target = latestVersion
  BY <1>1, Zenon DEF Target
<1>4. DynamicAt > 0 => latestVersion # DynamicAt - 1
  <2> SUFFICES ASSUME DynamicAt > 0, latestVersion = DynamicAt - 1
               PROVE  FALSE
    BY Zenon
  <2>1. latestVersion # 0 /\ Coming = DynamicAt
    BY ComingBlock, Numbers DEF RootInv, Orderly
  <2>2. step \in {"idle", "adding", "ran", "commit", "flush"}
    BY <1>1, Zenon DEF RootInv, ShapeInv
  <2>3. step # "flush" => lastCommitInfo.version = latestVersion
    BY <2>2, Zenon DEF RootInv, MountedInv
  <2>4. step = "flush" => lastCommitInfo.version = Coming
    BY DEF RootInv, MountedInv
  <2> QED
    BY <2>1, <2>2, <2>3, <2>4, Zenon DEF Crash, Adding, Orderly
<1> QED
  BY <1>1, <1>2, <1>3, <1>4, StopStep, Zenon

\* SetInitialVersion keeps it: nothing has been committed yet.
LEMMA SetInitialVersionStep ==
  ASSUME RootInv, Orderly, SetInitialVersion
  PROVE  RootInv'
<1>1. /\ step = "idle" /\ step' = "idle" /\ lastCommitInfo.version = 0
      /\ stores' = [n \in DOMAIN stores |-> [stores[n] EXCEPT !.initial = Initial]]
      /\ UNCHANGED <<disk, lastCommitInfo, commitHeader, removalMap, left, target, crashes, rollbacks>>
      /\ trees' = trees /\ latestVersion' = latestVersion
  BY Zenon DEF SetInitialVersion, disk
<1>2. latestVersion = 0 /\ DOMAIN stores' = DOMAIN stores
  BY <1>1, Zenon DEF RootInv, MountedInv
<1>3. InfoInv' /\ TreesInv' /\ Coming' = Coming
  BY <1>1, DiskFrame, Zenon DEF Target
<1>4. \A n \in DOMAIN stores :
        /\ stores'[n] \in Tree /\ stores'[n].initial = Initial
        /\ stores'[n].version = stores[n].version /\ stores'[n].contents = stores[n].contents
  BY <1>1, Numbers, Zenon DEF RootInv, ShapeInv, Tree
<1>5. ShapeInv'
  BY <1>1, <1>2, <1>4, Zenon DEF RootInv, ShapeInv
<1>6. DynamicInv'
  BY <1>1, <1>3, Zenon DEF RootInv, DynamicInv
<1>7. MountedInv'
  BY <1>1, <1>2, <1>3, Zenon DEF RootInv, MountedInv
<1>8. ContentsInv'
  BY <1>1, <1>2, <1>3, <1>4, Numbers DEF RootInv, ContentsInv, Fresh, Ahead
<1> QED
  BY <1>3, <1>5, <1>6, <1>7, <1>8, Zenon DEF RootInv

\* The start of a Commit keeps it: every store has still to be saved.
LEMMA BeginCommitStep ==
  ASSUME RootInv, Orderly, BeginCommit
  PROVE  RootInv'
<1>1. /\ step = "ran" /\ step' = "commit" /\ left' = DOMAIN stores /\ commitHeader' = NextVersion
      /\ UNCHANGED <<disk, stores, lastCommitInfo, removalMap, target, crashes, rollbacks>>
      /\ trees' = trees /\ latestVersion' = latestVersion
  BY Zenon DEF BeginCommit, disk
<1>2. NextVersion = Coming /\ Coming # 0
  BY <1>1, ComingBlock, Zenon DEF RootInv, MountedInv
<1>3. InfoInv' /\ TreesInv' /\ Coming' = Coming
  BY <1>1, DiskFrame, Zenon DEF Target
<1>5. ShapeInv'
  BY <1>1, Zenon DEF RootInv, ShapeInv
<1>6. DynamicInv'
  BY <1>1, <1>2, <1>3, Zenon DEF RootInv, DynamicInv
<1>7. MountedInv'
  BY <1>1, <1>3, Zenon DEF RootInv, MountedInv
<1>8. ContentsInv'
  BY <1>1, <1>3, Zenon DEF RootInv, ContentsInv, Ahead, Behind, SaveVersion
<1> QED
  BY <1>3, <1>5, <1>6, <1>7, <1>8, Zenon DEF RootInv

\* The start of RollbackToVersion keeps it: every store has still to be cut.
LEMMA BeginRollbackStep ==
  ASSUME RootInv, Orderly, NEW v \in MinTarget .. MaxVersion, BeginRollback(v)
  PROVE  RootInv'
<1>1. /\ step = "idle" /\ step' = "rollback" /\ left' = DOMAIN stores /\ target' = v /\ v < latestVersion
      /\ rollbacks' = rollbacks + 1
      /\ UNCHANGED <<disk, stores, lastCommitInfo, commitHeader, removalMap, crashes>>
      /\ trees' = trees /\ latestVersion' = latestVersion
  BY Zenon DEF BeginRollback, disk
<1>2. latestVersion > UpgradeAt /\ v \in Nat /\ v >= MinTarget
  BY <1>1, Numbers, ComingBlock DEF Orderly, RootInv
<1>3. InfoInv' /\ TreesInv' /\ Coming' = Coming
  BY <1>1, DiskFrame, Zenon DEF Target
<1>5. ShapeInv'
  BY <1>1, <1>2 DEF RootInv, ShapeInv
<1>6. DynamicInv'
  <2>1. Coming # DynamicAt /\ ~(Coming < DynamicAt)
    BY <1>1, <1>2, ComingBlock, Numbers DEF Orderly, RootInv
  <2> QED
    BY <1>1, <1>2, <1>3, <2>1, Zenon DEF RootInv, DynamicInv
<1>7. MountedInv'
  BY <1>1, <1>2, <1>3, Numbers DEF RootInv, MountedInv
<1>8. ContentsInv'
  BY <1>1, <1>3, Zenon DEF RootInv, ContentsInv
<1> QED
  BY <1>3, <1>5, <1>6, <1>7, <1>8, Zenon DEF RootInv

\* A block run on what was loaded: a store that was behind is one block ahead, and
\* one that had saved the block stays as it is.
LEMMA RunBlockStep ==
  ASSUME RootInv, Orderly, RunBlock
  PROVE  RootInv'
<1> DEFINE Ran(n) == [stores[n] EXCEPT !.contents = Written(@, NextVersion)]
<1>1. /\ step = "idle" /\ NextVersion <= MaxVersion
      /\ latestVersion = UpgradeAt => commitHeader # UpgradeAt
      /\ lastCommitInfo.version = 0 /\ Initial > 0 => \A n \in DOMAIN stores : stores[n].initial = Initial
      /\ step' = IF NextVersion = DynamicAt THEN "adding" ELSE "ran"
      /\ stores' = [n \in DOMAIN stores |-> IF n \in removalMap THEN stores[n] ELSE Ran(n)]
      /\ UNCHANGED <<disk, lastCommitInfo, commitHeader, removalMap, left, target, crashes, rollbacks>>
      /\ trees' = trees /\ latestVersion' = latestVersion
  BY Zenon DEF RunBlock, disk
<1>2. /\ NextVersion = Coming /\ Coming \in Nat \ {0} /\ latestVersion \in Nat
      /\ lastCommitInfo.version = latestVersion /\ DOMAIN stores' = DOMAIN stores
  BY <1>1, ComingBlock, Zenon DEF RootInv, MountedInv
<1>3. InfoInv' /\ TreesInv' /\ Coming' = Coming
  BY <1>1, DiskFrame, Zenon DEF Target
<1>4. \A n \in DOMAIN stores \ removalMap :
        /\ stores'[n] \in Tree /\ stores'[n].initial = stores[n].initial
        /\ stores'[n].version = stores[n].version /\ stores'[n].contents = Written(stores[n].contents, Coming)
  <2>1. \A c \in Seq(Nat) : Written(c, Coming) \in Seq(Nat)
    BY <1>2 DEF Written
  <2> QED
    BY <1>1, <1>2, <2>1, Zenon DEF RootInv, ShapeInv, Tree
<1>5. \A n \in DOMAIN stores \cap removalMap : stores'[n] = stores[n]
  BY <1>1, Zenon
<1>6. ShapeInv'
  BY <1>1, <1>2, <1>4, <1>5, Zenon DEF RootInv, ShapeInv
<1>7. latestVersion = UpgradeAt => commitHeader = 0
  BY <1>1, Zenon DEF RootInv, DynamicInv
<1>8. Coming = DynamicAt => latestVersion \notin {0, UpgradeAt}
  BY <1>2, ComingBlock, Numbers DEF Orderly, RootInv
<1>9. DynamicInv'
  BY <1>1, <1>2, <1>3, <1>7, Zenon DEF RootInv, DynamicInv
<1>10. latestVersion # UpgradeAt /\ Coming # DynamicAt => Live(Coming) = Live(latestVersion)
  BY ComingBlock, LiveNext, LiveAtEnds, Zenon DEF RootInv
<1>11. MountedInv'
  BY <1>1, <1>2, <1>3, <1>7, <1>8, <1>10, Zenon DEF RootInv, MountedInv
<1>12. ContentsInv'
  <2> SUFFICES ASSUME NEW n \in DOMAIN stores
               PROVE  (Ahead(n)' \/ Behind(n)') /\ (Coming = DynamicAt => Behind(n)')
    BY <1>1, <1>2, Zenon DEF ContentsInv
  <2>1. Fresh(n) /\ stores[n] \in Tree
    BY <1>1, Zenon DEF RootInv, ContentsInv, ShapeInv
  <2>2. CASE n \in removalMap
    <3>1. latestVersion = UpgradeAt /\ Coming = UpgradeAt + 1 /\ latestVersion # 0
      BY <2>2, ComingBlock, Numbers, Zenon DEF RootInv, MountedInv
    <3>2. stores'[n] = stores[n] /\ removalMap' = removalMap
      BY <1>1, <1>5, <2>2, Zenon
    <3>3. stores[n].version = UpgradeAt /\ stores[n].contents = <<>>
      BY <2>1, <2>2, <3>1, Zenon DEF Fresh
    <3>4. stores[n].version < Coming /\ SaveVersion(stores[n]) = Coming
      BY <3>1, <3>3, Numbers DEF SaveVersion
    <3> QED
      BY <1>3, <2>2, <3>2, <3>3, <3>4, Zenon DEF Behind
  <2>3. CASE n \notin removalMap
    <3>1. Coming - 1 \in Nat /\ (Coming - 1) + 1 = Coming
      BY <1>2
    <3>2. FirstBlock(n) <= Coming
      <4>1. n \in Live(Coming) \/ (n \in Live(latestVersion) /\ latestVersion # 0) \/ n \in First
        BY <1>1, <1>7, <2>3, LiveAtEnds, Zenon DEF RootInv, MountedInv
      <4> QED
        BY <4>1, ComingBlock, WrittenWhenLive, FirstBlocks, Numbers DEF RootInv
    <3>3. /\ Written(Contents(n, Coming - 1), Coming) = Contents(n, Coming)
          /\ Written(Contents(n, Coming), Coming) = Contents(n, Coming)
      BY <3>1, <3>2, WrittenOnce, Zenon DEF Orderly
    <3>4. stores'[n].contents = Contents(n, Coming)
      BY <1>4, <2>1, <2>3, <3>3, Zenon DEF Fresh, Ahead
    <3>5. CASE Ahead(n) /\ latestVersion \in {0, UpgradeAt}
      BY <1>1, <1>3, <1>4, <1>8, <2>3, <3>4, <3>5, Zenon DEF Ahead
    <3>6. CASE stores[n].version = latestVersion /\ (latestVersion = 0 => stores[n].initial \in {0, Initial})
      <4>1. SaveVersion(stores'[n]) = Coming
        <5>1. stores'[n].version = stores[n].version /\ stores'[n].initial = stores[n].initial
          BY <1>4, <2>3, Zenon
        <5>2. CASE latestVersion # 0
          BY <3>6, <5>1, <5>2, ComingBlock, Zenon DEF SaveVersion, RootInv
        <5>3. CASE latestVersion = 0
          <6>1. Initial > 0 => stores[n].initial = Initial
            BY <1>1, <1>2, <5>3, Zenon
          <6>2. Coming = FirstVersion
            BY <5>3, ComingBlock, Zenon DEF RootInv
          <6> QED
            BY <3>6, <5>1, <5>3, <6>1, <6>2, Numbers DEF SaveVersion, FirstVersion
        <5> QED
          BY <5>2, <5>3, Zenon
      <4> QED
        BY <1>1, <1>3, <1>4, <2>3, <3>4, <3>6, <4>1, ComingBlock, Zenon DEF Behind, RootInv
    <3>7. CASE stores[n].version = 0 /\ stores[n].initial = Coming
      BY <1>1, <1>2, <1>3, <1>4, <2>3, <3>4, <3>7 DEF Behind, SaveVersion
    <3> QED
      BY <2>1, <2>3, <3>5, <3>6, <3>7, Zenon DEF Fresh
  <2> QED
    BY <2>2, <2>3, Zenon
<1> QED
  BY <1>3, <1>6, <1>9, <1>11, <1>12, Zenon DEF RootInv

\* A store added while the process runs is saved, empty, at the last version, and
\* is then one of those the commit has still to save.
LEMMA DynamicAddStep ==
  ASSUME RootInv, Orderly, DynamicAddNamesapceStore
  PROVE  RootInv'
<1>1. /\ step = "adding" /\ step' = "ran"
      /\ UNCHANGED <<commitInfo, latestVersion, lastCommitInfo, commitHeader, removalMap, left, target,
                     crashes, rollbacks>>
  BY Zenon DEF DynamicAddNamesapceStore
<1>2. /\ Coming = DynamicAt /\ DynamicAt \in Nat \ {0} /\ latestVersion \in Nat \ {0} /\ latestVersion # UpgradeAt
      /\ Coming = latestVersion + 1 /\ Coming <= MaxVersion /\ NextVersion = Coming
  BY <1>1, ComingBlock, Numbers DEF RootInv, MountedInv, Orderly
<1>3. commitHeader = latestVersion /\ removalMap = {}
  BY <1>1, <1>2 DEF RootInv, DynamicInv, MountedInv
<1>4. DOMAIN stores = Live(latestVersion) /\ Dynamic \cap DOMAIN stores = {} /\ Live(Coming) = Live(latestVersion) \cup Dynamic
  BY <1>1, <1>2, NamesApart, Numbers DEF RootInv, MountedInv, Live
<1>5. \A n \in Dynamic : Loaded(n, 0, commitHeader) = [version |-> 0, contents |-> <<>>, initial |-> latestVersion]
  BY <1>1, <1>2, <1>3, Zenon DEF RootInv, DynamicInv, Loaded
<1>6. \A n \in Dynamic : SaveVersion(Loaded(n, 0, commitHeader)) = latestVersion
  BY <1>2, <1>5 DEF SaveVersion
<1>7. Dynamic \ DOMAIN stores = Dynamic
  BY <1>4, Zenon
<1>8. DOMAIN trees' = Names /\ (\A n \in Names \ Dynamic : trees'[n] = trees[n])
      /\ \A n \in Dynamic : DOMAIN trees'[n] = {latestVersion}
  <2>1. trees' = [n \in Names |->
                    IF n \in Dynamic
                    THEN Put(trees[n], SaveVersion(Loaded(n, 0, commitHeader)), Loaded(n, 0, commitHeader).contents)
                    ELSE trees[n]]
    BY <1>7, Zenon DEF DynamicAddNamesapceStore
  <2>2. \A n \in Dynamic : DOMAIN trees[n] = {} /\ n \in Names
    BY <1>1, <1>2, NamesApart, Zenon DEF RootInv, DynamicInv
  <2>3. \A n \in Dynamic : trees'[n] = Put(trees[n], latestVersion, <<>>)
    BY <1>5, <1>6, <2>1, <2>2
  <2>4. \A n \in Dynamic : DOMAIN trees'[n] = {latestVersion}
    BY <2>2, <2>3, Zenon DEF Put
  <2>5. DOMAIN trees' = Names /\ \A n \in Names \ Dynamic : trees'[n] = trees[n]
    BY <2>1, Zenon
  <2> QED
    BY <2>4, <2>5, Zenon
<1>9. /\ DOMAIN stores' = Live(Coming)
      /\ \A n \in Live(latestVersion) : stores'[n] = stores[n]
      /\ \A n \in Dynamic : stores'[n] \in Tree /\ stores'[n].version = latestVersion
                            /\ stores'[n].contents = Contents(n, Coming)
  <2>1. \A n \in Dynamic : Written(<<>>, Coming) = Contents(n, Coming)
    <3> SUFFICES ASSUME NEW n \in Dynamic
                 PROVE  Written(<<>>, Coming) = Contents(n, Coming)
      BY Zenon
    <3>1. FirstBlock(n) = latestVersion + 1
      BY <1>2, FirstBlocks, Zenon
    <3>2. Contents(n, latestVersion) = <<>>
      BY <1>2, <3>1, ContentsEmpty, Zenon
    <3>3. FirstBlock(n) <= latestVersion + 1 /\ Idempotent
      BY <1>2, <3>1 DEF Orderly
    <3>4. Written(Contents(n, latestVersion), latestVersion + 1) = Contents(n, latestVersion + 1)
      BY <1>2, <3>3, WrittenOnce, Zenon
    <3> QED
      BY <1>2, <3>2, <3>4, Zenon
  <2>2. stores' = [n \in DOMAIN stores \cup Dynamic |->
                     IF n \in Dynamic
                     THEN [Loaded(n, 0, commitHeader) EXCEPT !.version = latestVersion,
                                                             !.contents = Written(@, Coming)]
                     ELSE stores[n]]
    BY <1>2, <1>6, <1>7, Zenon DEF DynamicAddNamesapceStore
  <2>3. DOMAIN stores' = Live(Coming) /\ \A n \in Live(latestVersion) : stores'[n] = stores[n]
    BY <1>4, <2>2, Zenon
  <2>4. \A n \in Dynamic : stores'[n] = [Loaded(n, 0, commitHeader) EXCEPT !.version = latestVersion,
                                                               !.contents = Written(@, Coming)]
    BY <2>2, Zenon
  <2>5. ASSUME NEW n \in Dynamic
        PROVE  stores'[n] \in Tree /\ stores'[n].version = latestVersion /\ stores'[n].contents = Contents(n, Coming)
    <3>1. PICK t \in Tree : t = Loaded(n, 0, commitHeader) /\ t.contents = <<>>
      <4>1. [version |-> 0, contents |-> <<>>, initial |-> latestVersion] \in Tree
        BY <1>2 DEF Tree
      <4>2. Loaded(n, 0, commitHeader) = [version |-> 0, contents |-> <<>>, initial |-> latestVersion]
        BY <1>5, Zenon
      <4>3. Loaded(n, 0, commitHeader) \in Tree
        BY <4>1, <4>2, Zenon
      <4>4. Loaded(n, 0, commitHeader).contents = <<>>
        BY <4>2
      <4> QED
        BY <4>3, <4>4, Zenon
    <3>2. stores'[n] = [t EXCEPT !.version = latestVersion, !.contents = Written(@, Coming)]
      BY <2>4, <3>1, Zenon
    <3>3. Written(t.contents, Coming) = Contents(n, Coming)
      BY <2>1, <3>1, Zenon
    <3>4. Contents(n, Coming) \in Seq(Nat)
      BY <1>2, FirstBlocks, ContentsSeq
    <3> QED
      BY <1>2, <3>2, <3>3, <3>4, Zenon DEF Tree
  <2> QED
    BY <2>3, <2>5, Zenon
<1>10. Coming' = Coming /\ Target' = latestVersion /\ Target = latestVersion
  BY <1>1, Zenon DEF Coming, Target
<1>11. ShapeInv'
  <2>2. Live(Coming) \subseteq Names
    BY <1>2, LiveNames, Zenon
  <2>4. latestVersion <= MaxVersion
    BY <1>2, Numbers
  <2>5. \A n \in DOMAIN stores' : stores'[n] \in Tree /\ stores'[n].version <= MaxVersion
    BY <1>4, <1>9, <2>4, Zenon DEF RootInv, ShapeInv
  <2>6. left' \subseteq DOMAIN stores' /\ removalMap' \subseteq DOMAIN stores'
    BY <1>1, <1>4, <1>9, Zenon DEF RootInv, ShapeInv
  <2> QED
    BY <1>1, <1>8, <1>9, <2>2, <2>5, <2>6, Zenon DEF RootInv, ShapeInv
<1>12. InfoInv'
  BY <1>1, Zenon DEF RootInv, InfoInv
<1>13. TreesInv'
  <2>1. \A v \in FirstVersion .. latestVersion : \A n \in Live(v) : n \in Names \ Dynamic
    BY <1>2, NamesApart, LiveNames, Numbers DEF Live
  <2>2. \A n \in Dynamic : n \notin First /\ n \notin New /\ n \notin Gone
    BY NamesApart, Zenon
  <2>3. \A n \in Names : \A w \in DOMAIN trees'[n] :
       /\ w \in Nat \ {0} /\ w <= Coming
       /\ n \in First => w >= FirstVersion
       /\ n \in New => w > UpgradeAt
       /\ n \in Gone => w <= UpgradeAt + 1
    BY <1>2, <1>8, <2>2 DEF RootInv, TreesInv
  <2>4. \A v \in FirstVersion .. latestVersion : \A n \in Live(v) :
          v \in DOMAIN trees'[n] /\ trees'[n][v] = Contents(n, v)
    BY <1>8, <1>10, <2>1, Zenon DEF RootInv, TreesInv
  <2>5. \A n \in Names : Coming \in DOMAIN trees'[n] =>
       /\ Coming <= MaxVersion
       /\ trees'[n][Coming] = IF n \in Live(Coming) THEN Contents(n, Coming) ELSE <<>>
    BY <1>2, <1>8 DEF RootInv, TreesInv
  <2> QED
    BY <1>10, <2>3, <2>4, <2>5, Zenon DEF TreesInv
<1>14. DynamicInv'
  BY <1>1, <1>2, <1>3, <1>10 DEF RootInv, DynamicInv
<1>15. MountedInv'
  BY <1>1, <1>2, <1>3, <1>9, <1>10, Zenon DEF RootInv, MountedInv
<1>16. ContentsInv'
  <2>1. \A n \in Live(latestVersion) : Behind(n)'
    BY <1>1, <1>4, <1>9, <1>10, Zenon DEF RootInv, ContentsInv, Behind
  <2>2. \A n \in Dynamic : Behind(n)'
    <3> SUFFICES ASSUME NEW n \in Dynamic
                 PROVE  Behind(n)'
      BY Zenon
    <3>1. stores'[n].version = latestVersion /\ stores'[n].contents = Contents(n, Coming)
      BY <1>9, Zenon
    <3>2. SaveVersion(stores'[n]) = Coming
      BY <1>2, <3>1, Zenon DEF SaveVersion
    <3> QED
      BY <1>1, <1>2, <1>3, <1>10, <3>1, <3>2 DEF Behind
  <2> QED
    BY <1>1, <1>4, <1>9, <2>1, <2>2, Zenon DEF ContentsInv
<1> QED
  BY <1>11, <1>12, <1>13, <1>14, <1>15, <1>16, Zenon DEF RootInv
------------------------------------------------------------------------------
(* Commit *)

\* The stores a commit will remove are not stores of its version.
LEMMA RemovalsApart ==
  ASSUME RootInv, Orderly, step \in {"ran", "commit"}
  PROVE  /\ DOMAIN stores = Live(Coming) \cup removalMap /\ removalMap \cap Live(Coming) = {}
         /\ removalMap \subseteq Gone /\ (removalMap # {} => Coming = UpgradeAt + 1)
         /\ \A n \in DOMAIN stores \cap Gone : Coming <= UpgradeAt + 1
         /\ \A n \in DOMAIN stores \cap New : Coming > UpgradeAt
         /\ \A n \in DOMAIN stores \cap Dynamic : DynamicAt > 0 /\ DynamicAt <= Coming
<1>1. DOMAIN stores = Live(Coming) \cup removalMap /\ removalMap = IF latestVersion = UpgradeAt THEN Gone ELSE {}
  BY Zenon DEF RootInv, MountedInv
<1>2. latestVersion = UpgradeAt => Coming = UpgradeAt + 1
  BY ComingBlock, Numbers, Zenon DEF RootInv
<1>3. Coming \in Nat
  BY ComingBlock, Zenon DEF RootInv
<1>4. removalMap \cap Live(Coming) = {}
  BY <1>1, <1>2, LiveUpgraded, Zenon
<1>5. \A n \in Live(Coming) : /\ n \in Gone => Coming <= UpgradeAt
                              /\ n \in New => Coming > UpgradeAt
                              /\ n \in Dynamic => DynamicAt > 0 /\ DynamicAt <= Coming
  BY <1>3, NamesApart, Numbers DEF Live
<1>6. \A n \in removalMap : n \in Gone /\ n \notin New /\ n \notin Dynamic
  BY <1>1, NamesApart, Zenon
<1> QED
  BY <1>1, <1>2, <1>3, <1>4, <1>5, <1>6, Numbers

\* A store is saved, or was saved before: a version that is there already has
\* the contents the block writes again.
LEMMA CommitStoreStep ==
  ASSUME RootInv, Orderly, NEW n \in DOMAIN stores, CommitStore(n)
  PROVE  RootInv'
<1>1. /\ step = "commit" /\ n \in left /\ left' = left \ {n}
      /\ UNCHANGED <<commitInfo, latestVersion, lastCommitInfo, commitHeader, removalMap, target, crashes, rollbacks>>
  BY Zenon DEF CommitStore
<1>2. /\ NextVersion = Coming /\ Coming \in Nat \ {0} /\ Coming <= MaxVersion
      /\ latestVersion \in Nat /\ Coming > latestVersion
  BY <1>1, ComingBlock, Zenon DEF RootInv, MountedInv
<1>3. Coming' = Coming /\ Target = latestVersion
  BY <1>1, Zenon DEF Coming, Target
<1>4. stores[n] \in Tree /\ (Ahead(n) \/ Behind(n)) /\ n \in Names
  BY <1>1, Zenon DEF RootInv, ShapeInv, ContentsInv
<1>5. InfoInv'
  BY <1>1, Zenon DEF RootInv, InfoInv
<1>6. CASE Ahead(n)
  <2>1. UNCHANGED <<trees, stores, step>>
    BY <1>2, <1>6 DEF CommitStore, CommittedAlready, Ahead
  <2>2. Target' = Target
    BY <1>1, <2>1, Zenon DEF Target
  <2>3. TreesInv'
    BY <1>1, <2>1, <2>2, DiskFrame, Zenon DEF disk
  <2>4. ShapeInv'
    BY <1>1, <2>1, Zenon DEF RootInv, ShapeInv
  <2>5. DynamicInv'
    BY <1>1, <1>3, <2>1, Zenon DEF RootInv, DynamicInv
  <2>6. MountedInv'
    BY <1>1, <1>3, <2>1, Zenon DEF RootInv, MountedInv
  <2>7. ContentsInv'
    BY <1>1, <1>3, <1>6, <2>1, Zenon DEF RootInv, ContentsInv, Ahead, Behind, Saved, SaveVersion
  <2> QED
    BY <1>5, <2>3, <2>4, <2>5, <2>6, <2>7, Zenon DEF RootInv
<1>7. CASE Behind(n)
  <2> DEFINE c == stores[n].contents
  <2>1. ~CommittedAlready(stores[n]) /\ SaveVersion(stores[n]) = Coming
    BY <1>2, <1>4, <1>7 DEF CommittedAlready, Behind, Tree
  <2>2. c = IF n \in Live(Coming) THEN Contents(n, Coming) ELSE <<>>
    BY <1>1, <1>7, RemovalsApart, Zenon DEF Behind
  <2>3. CanSave(n, stores[n])
    BY <1>4, <2>1, <2>2, Zenon DEF CanSave, RootInv, TreesInv
  <2>4. /\ trees' = [trees EXCEPT ![n] = Put(@, Coming, c)]
        /\ stores' = [stores EXCEPT ![n].version = Coming] /\ step' = step
    BY <2>1, <2>3, Zenon DEF CommitStore
  <2>5. /\ DOMAIN stores' = DOMAIN stores /\ \A m \in DOMAIN stores : m # n => stores'[m] = stores[m]
        /\ stores'[n] \in Tree /\ stores'[n].version = Coming /\ stores'[n].contents = c
    BY <1>2, <1>4, <2>4, Zenon DEF Tree
  <2>6. /\ DOMAIN trees' = Names /\ \A m \in Names : m # n => trees'[m] = trees[m]
        /\ DOMAIN trees'[n] = DOMAIN trees[n] \cup {Coming} /\ trees'[n][Coming] = c
        /\ \A w \in DOMAIN trees[n] : w # Coming => trees'[n][w] = trees[n][w]
    BY <1>4, <2>4, Zenon DEF RootInv, ShapeInv, Put
  <2>7. Target' = latestVersion
    BY <1>1, <2>4, Zenon DEF Target
  <2>8. ShapeInv'
    BY <1>1, <1>2, <2>4, <2>5, <2>6, Zenon DEF RootInv, ShapeInv
  <2>9. TreesInv'
    <3>1. /\ n \in First => Coming >= FirstVersion
          /\ n \in New => Coming > UpgradeAt
          /\ n \in Gone => Coming <= UpgradeAt + 1
      BY <1>1, RemovalsApart, ComingBlock, Zenon DEF RootInv
    <3>2. \A m \in Names : \A w \in DOMAIN trees'[m] :
            /\ w \in Nat \ {0} /\ w <= Coming
            /\ m \in First => w >= FirstVersion
            /\ m \in New => w > UpgradeAt
            /\ m \in Gone => w <= UpgradeAt + 1
      BY <1>2, <2>6, <3>1 DEF RootInv, TreesInv
    <3>3. \A v \in FirstVersion .. latestVersion : \A m \in Live(v) :
            v \in DOMAIN trees'[m] /\ trees'[m][v] = Contents(m, v)
      <4> SUFFICES ASSUME NEW v \in FirstVersion .. latestVersion, NEW m \in Live(v)
                   PROVE  v \in DOMAIN trees'[m] /\ trees'[m][v] = Contents(m, v)
        BY Zenon
      <4>1. v \in DOMAIN trees[m] /\ trees[m][v] = Contents(m, v) /\ m \in Names /\ v # Coming
        BY <1>2, <1>3, LiveNames, Numbers DEF RootInv, TreesInv
      <4> QED
        BY <2>6, <4>1, Zenon
    <3>4. \A m \in Names : Coming \in DOMAIN trees'[m] =>
            /\ Coming <= MaxVersion
            /\ trees'[m][Coming] = IF m \in Live(Coming) THEN Contents(m, Coming) ELSE <<>>
      BY <1>2, <2>2, <2>6, Zenon DEF RootInv, TreesInv
    <3> QED
      BY <1>3, <2>7, <3>2, <3>3, <3>4, Zenon DEF TreesInv
  <2>10. DynamicInv'
    <3>1. n \in Dynamic => DynamicAt > 0 /\ DynamicAt <= Coming
      BY <1>1, RemovalsApart, Zenon
    <3>2. n \in Dynamic => ~(DynamicAt = 0 \/ Coming < DynamicAt)
      BY <1>2, <3>1, Numbers
    <3>3. (DynamicAt = 0 \/ Coming < DynamicAt) => \A m \in Dynamic : DOMAIN trees'[m] = {}
      BY <2>6, <3>2, NamesApart, Zenon DEF RootInv, DynamicInv
    <3> QED
      BY <1>1, <1>3, <2>4, <3>3, Zenon DEF RootInv, DynamicInv
  <2>11. MountedInv'
    BY <1>1, <1>3, <2>4, <2>5, Zenon DEF RootInv, MountedInv
  <2>12. ContentsInv'
    <3>1. Saved(n)' /\ (n \notin removalMap => Ahead(n)')
      BY <1>1, <1>3, <1>7, <2>5, <2>6, Zenon DEF Saved, Ahead, Behind
    <3>2. \A m \in DOMAIN stores : m # n => trees'[m] = trees[m] /\ stores'[m] = stores[m]
      BY <2>5, <2>6, Zenon DEF RootInv, ShapeInv
    <3>3. \A m \in DOMAIN stores : m # n => /\ Ahead(m) => Ahead(m)'
                                            /\ Behind(m) => Behind(m)'
                                            /\ Saved(m) => Saved(m)'
      BY <1>1, <1>3, <3>2, Zenon DEF Ahead, Behind, Saved
    <3> QED
      BY <1>1, <2>4, <2>5, <3>1, <3>3, Zenon DEF RootInv, ContentsInv
  <2> QED
    BY <1>5, <2>8, <2>9, <2>10, <2>11, <2>12, Zenon DEF RootInv
<1> QED
  BY <1>4, <1>6, <1>7, Zenon

\* When every store is saved the last commit info names each at its version, and
\* the stores to be removed are dropped.
LEMMA SetLastCommitInfoStep ==
  ASSUME RootInv, Orderly, SetLastCommitInfo
  PROVE  RootInv'
<1>1. /\ step = "commit" /\ left = {} /\ step' = "flush" /\ removalMap' = {}
      /\ lastCommitInfo' = [version |-> NextVersion, infos |-> Infos(NextVersion)]
      /\ stores' = [n \in DOMAIN stores \ removalMap |-> stores[n]]
      /\ UNCHANGED <<disk, commitHeader, left, target, crashes, rollbacks>>
      /\ trees' = trees /\ latestVersion' = latestVersion
  BY Zenon DEF SetLastCommitInfo, disk
<1>2. NextVersion = Coming /\ Coming \in Nat \ {0}
  BY <1>1, ComingBlock, Zenon DEF RootInv, MountedInv
<1>3. InfoInv' /\ TreesInv' /\ Coming' = Coming
  BY <1>1, DiskFrame, Zenon DEF Target
<1>4. DOMAIN stores \ removalMap = Live(Coming)
  BY <1>1, RemovalsApart, Zenon
<1>5. \A n \in Live(Coming) : Ahead(n) /\ stores'[n] = stores[n] /\ n \in DOMAIN stores
  BY <1>1, <1>4, Zenon DEF RootInv, ContentsInv
<1>6. DOMAIN stores' = Live(Coming)
  BY <1>1, <1>4, Zenon
<1>7. Infos(NextVersion) = [n \in Live(Coming) |-> Coming]
  BY <1>2, <1>4, <1>5, Zenon DEF Infos, Ahead
<1>8. ShapeInv'
  BY <1>1, <1>5, <1>6, Zenon DEF RootInv, ShapeInv
<1>9. DynamicInv'
  BY <1>1, <1>3, Zenon DEF RootInv, DynamicInv
<1>10. MountedInv'
  BY <1>1, <1>2, <1>3, <1>6, <1>7, Zenon DEF RootInv, MountedInv
<1>11. ContentsInv'
  BY <1>1, <1>3, <1>5, <1>6, Zenon DEF ContentsInv, Ahead
<1> QED
  BY <1>3, <1>8, <1>9, <1>10, <1>11, Zenon DEF RootInv

\* The metadata is written, which makes the block that came the latest version.
LEMMA FlushMetadataStep ==
  ASSUME RootInv, Orderly, FlushMetadata
  PROVE  RootInv'
<1>1. /\ step = "flush" /\ step' = "idle"
      /\ commitInfo' = Put(commitInfo, lastCommitInfo.version, lastCommitInfo.infos)
      /\ latestVersion' = lastCommitInfo.version
      /\ UNCHANGED <<trees, stores, lastCommitInfo, commitHeader, removalMap, left, target, crashes, rollbacks>>
  BY Zenon DEF FlushMetadata
<1>2. /\ Coming \in Nat \ {0} /\ Coming <= MaxVersion /\ Coming >= FirstVersion /\ latestVersion \in Nat
      /\ Coming > latestVersion
      /\ latestVersion = 0 => Coming = FirstVersion
      /\ latestVersion # 0 => Coming = latestVersion + 1
  BY <1>1, ComingBlock, Zenon DEF RootInv, MountedInv
<1>3. lastCommitInfo = [version |-> Coming, infos |-> [n \in Live(Coming) |-> Coming]]
  BY <1>1, Zenon DEF RootInv, MountedInv
<1>4. latestVersion' = Coming /\ commitInfo' = Put(commitInfo, Coming, [n \in Live(Coming) |-> Coming])
  BY <1>1, <1>3, Zenon
<1>5. Coming' = Coming + 1 /\ Target' = Coming
  BY <1>1, <1>2, <1>4, Zenon DEF Coming, BlockAfter, Target
<1>6. DOMAIN stores = Live(Coming) /\ removalMap = {} /\ \A n \in Live(Coming) : Ahead(n)
  BY <1>1, Zenon DEF RootInv, MountedInv, ContentsInv
<1>7. ShapeInv'
  BY <1>1, <1>2, <1>4, Numbers DEF RootInv, ShapeInv
<1>8. InfoInv'
  <2>1. /\ DOMAIN commitInfo' = DOMAIN commitInfo \cup {Coming}
        /\ commitInfo'[Coming] = [n \in Live(Coming) |-> Coming]
        /\ \A v \in DOMAIN commitInfo : v # Coming => commitInfo'[v] = commitInfo[v]
    BY <1>4, Zenon DEF Put
  <2>2. \A v \in FirstVersion .. Coming : v = Coming \/ v \in FirstVersion .. latestVersion
    BY <1>2, Numbers
  <2>3. \A v \in DOMAIN commitInfo' : v \in Nat /\ v >= FirstVersion
    BY <1>2, <2>1, Zenon DEF RootInv, InfoInv
  <2>4. \A v \in FirstVersion .. Coming : v \in DOMAIN commitInfo' /\ commitInfo'[v] = [n \in Live(v) |-> v]
    BY <2>1, <2>2, Zenon DEF RootInv, InfoInv
  <2> QED
    BY <1>4, <2>3, <2>4, Zenon DEF InfoInv
<1>9. TreesInv'
  <2>1. Target = latestVersion
    BY <1>1, Zenon DEF Target
  <2>2. \A v \in FirstVersion .. Coming : v = Coming \/ v \in FirstVersion .. latestVersion
    BY <1>2, Numbers
  <2>3. \A n \in Live(Coming) : Coming \in DOMAIN trees[n] /\ trees[n][Coming] = Contents(n, Coming)
    BY <1>2, <1>6, LiveNames, Zenon DEF Ahead, RootInv, TreesInv
  <2>4. \A v \in FirstVersion .. Coming : \A n \in Live(v) : v \in DOMAIN trees[n] /\ trees[n][v] = Contents(n, v)
    BY <2>1, <2>2, <2>3, Zenon DEF RootInv, TreesInv
  <2>5. \A n \in Names : \A w \in DOMAIN trees[n] : w \in Nat \ {0} /\ w <= Coming + 1 /\ w # Coming + 1
    BY <1>2 DEF RootInv, TreesInv
  <2>6. \A n \in Names : \A w \in DOMAIN trees[n] :
          /\ n \in First => w >= FirstVersion
          /\ n \in New => w > UpgradeAt
          /\ n \in Gone => w <= UpgradeAt + 1
    BY Zenon DEF RootInv, TreesInv
  <2> QED
    BY <1>1, <1>5, <2>4, <2>5, <2>6, Zenon DEF TreesInv
<1>10. DynamicInv'
  <2>1. (DynamicAt = 0 \/ Coming + 1 < DynamicAt \/ Coming + 1 = DynamicAt) => DynamicAt = 0 \/ Coming < DynamicAt
    BY <1>2, Numbers
  <2>2. commitHeader = Coming
    BY <1>1, Zenon DEF RootInv, DynamicInv
  <2> QED
    BY <1>1, <1>2, <1>4, <1>5, <2>1, <2>2, Zenon DEF RootInv, DynamicInv
<1>11. MountedInv'
  <2>1. commitHeader = Coming
    BY <1>1, Zenon DEF RootInv, DynamicInv
  <2> QED
    BY <1>1, <1>2, <1>3, <1>4, <1>6, <2>1, Zenon DEF MountedInv
<1>12. ContentsInv'
  <2>1. Coming' - 1 = Coming
    BY <1>2, <1>5
  <2> QED
    BY <1>1, <1>2, <1>4, <1>6, <2>1, Zenon DEF ContentsInv, Fresh, Ahead
<1> QED
  BY <1>7, <1>8, <1>9, <1>10, <1>11, <1>12, Zenon DEF RootInv

------------------------------------------------------------------------------
(* RollbackToVersion *)

\* A rollback goes to a version that all the stores have.
LEMMA RollbackTarget ==
  ASSUME RootInv, Orderly, step = "rollback"
  PROVE  /\ target \in Nat \ {0} /\ target > UpgradeAt /\ target >= MinTarget /\ target >= FirstVersion
         /\ target < latestVersion /\ latestVersion \in Nat /\ latestVersion <= MaxVersion
         /\ Target \in {target, latestVersion} /\ target >= DynamicAt
         /\ Live(latestVersion) = Live(target) /\ DOMAIN stores = Live(target)
         /\ \A n \in DOMAIN stores : target \in DOMAIN trees[n] /\ trees[n][target] = Contents(n, target)
<1>1. /\ target \in Nat \ {0} /\ target > UpgradeAt /\ target >= MinTarget /\ target >= FirstVersion
      /\ target < latestVersion /\ latestVersion \in Nat /\ latestVersion <= MaxVersion /\ target >= DynamicAt
  BY ComingBlock, Numbers DEF RootInv, ShapeInv, MountedInv, Orderly
<1>2. Target \in {target, latestVersion}
  BY Zenon DEF Target
<1>3. Live(latestVersion) = Live(target)
  BY <1>1, LiveAtEnds
<1>4. DOMAIN stores = Live(target)
  BY <1>1, <1>3, Numbers DEF RootInv, MountedInv
<1>5. target \in FirstVersion .. Target
  BY <1>1, <1>2, Numbers
<1>6. \A n \in DOMAIN stores : target \in DOMAIN trees[n] /\ trees[n][target] = Contents(n, target)
  BY <1>4, <1>5, Zenon DEF RootInv, TreesInv
<1> QED
  BY <1>1, <1>2, <1>3, <1>4, <1>6, Zenon

\* A store is cut, down to a version that it has.
LEMMA OverwriteStoreStep ==
  ASSUME RootInv, Orderly, NEW n \in DOMAIN stores, OverwriteStore(n)
  PROVE  RootInv'
<1>1. step = "rollback" /\ n \in left /\ UNCHANGED <<commitInfo, latestVersion, crashes, rollbacks>>
  BY Zenon DEF OverwriteStore
<1>2. /\ target \in Nat \ {0} /\ target < latestVersion /\ latestVersion \in Nat /\ latestVersion <= MaxVersion
      /\ target \in DOMAIN trees[n] /\ trees[n][target] = Contents(n, target)
      /\ Target \in {target, latestVersion} /\ n \in Live(target) /\ target >= FirstVersion
  BY <1>1, RollbackTarget, Zenon
<1>3. /\ trees' = [trees EXCEPT ![n] = [v \in {w \in DOMAIN @ : w <= target} |-> @[v]]]
      /\ stores' = [stores EXCEPT ![n].version = target, ![n].contents = trees[n][target]]
      /\ left' = left \ {n}
      /\ UNCHANGED <<step, lastCommitInfo, commitHeader, removalMap, target>>
  BY <1>2, Zenon DEF OverwriteStore
<1>4. n \in Names /\ stores[n] \in Tree /\ DOMAIN trees = Names
  BY Zenon DEF RootInv, ShapeInv
<1>5. Contents(n, target) \in Seq(Nat)
  <2>1. FirstBlock(n) <= target
    BY <1>2, WrittenWhenLive, Zenon
  <2>2. FirstBlock(n) <= target + 1
    BY <1>2, <2>1, Numbers
  <2> QED
    BY <1>2, <2>2, ContentsSeq, Zenon
<1>6. /\ DOMAIN stores' = DOMAIN stores /\ \A m \in DOMAIN stores : m # n => stores'[m] = stores[m]
      /\ stores'[n] \in Tree /\ stores'[n].version = target
  BY <1>2, <1>3, <1>4, <1>5, Zenon DEF Tree
<1>7. /\ DOMAIN trees' = Names /\ \A m \in Names : m # n => trees'[m] = trees[m]
      /\ DOMAIN trees'[n] = {w \in DOMAIN trees[n] : w <= target}
      /\ \A w \in DOMAIN trees'[n] : trees'[n][w] = trees[n][w]
  BY <1>3, <1>4, Zenon
<1>8. Coming' = Coming /\ Target' = target /\ Coming \in Nat /\ Coming > latestVersion
  <2>1. left' # DOMAIN stores'
    BY <1>3, <1>6, Zenon
  <2> QED
    BY <1>1, <1>3, <2>1, ComingBlock, Zenon DEF Coming, Target, RootInv
<1>9. ShapeInv'
  BY <1>1, <1>2, <1>3, <1>6, <1>7, Numbers DEF RootInv, ShapeInv
<1>10. InfoInv'
  BY <1>1, Zenon DEF RootInv, InfoInv
<1>11. TreesInv'
  <2>1. \A m \in Names : \A w \in DOMAIN trees'[m] : w \in DOMAIN trees[m] /\ trees'[m][w] = trees[m][w]
    BY <1>7, Zenon
  <2>2. \A m \in Names : \A w \in DOMAIN trees'[m] :
          /\ w \in Nat \ {0} /\ w <= Coming
          /\ m \in First => w >= FirstVersion
          /\ m \in New => w > UpgradeAt
          /\ m \in Gone => w <= UpgradeAt + 1
    BY <2>1, Zenon DEF RootInv, TreesInv
  <2>3. \A v \in FirstVersion .. target : \A m \in Live(v) : v \in DOMAIN trees'[m] /\ trees'[m][v] = Contents(m, v)
    <3> SUFFICES ASSUME NEW v \in FirstVersion .. target, NEW m \in Live(v)
                 PROVE  v \in DOMAIN trees'[m] /\ trees'[m][v] = Contents(m, v)
      BY Zenon
    <3>1. v \in FirstVersion .. Target /\ v <= target /\ v \in Nat
      BY <1>2, Numbers
    <3>2. v \in DOMAIN trees[m] /\ trees[m][v] = Contents(m, v) /\ m \in Names
      BY <3>1, LiveNames, Zenon DEF RootInv, TreesInv
    <3> QED
      BY <1>7, <3>1, <3>2, Zenon
  <2>4. \A m \in Names : Coming \in DOMAIN trees'[m] =>
          /\ Coming <= MaxVersion
          /\ trees'[m][Coming] = IF m \in Live(Coming) THEN Contents(m, Coming) ELSE <<>>
    BY <2>1, Zenon DEF RootInv, TreesInv
  <2> QED
    BY <1>8, <2>2, <2>3, <2>4, Zenon DEF TreesInv
<1>12. DynamicInv'
  <2>1. \A m \in Dynamic : DOMAIN trees[m] = {} => DOMAIN trees'[m] = {}
    BY <1>7, NamesApart, Zenon
  <2> QED
    BY <1>1, <1>3, <1>8, <2>1, Zenon DEF RootInv, DynamicInv
<1>13. MountedInv'
  BY <1>1, <1>3, <1>6, <1>8, Zenon DEF RootInv, MountedInv
<1>14. ContentsInv'
  <2>1. \A w \in DOMAIN trees'[n] : w <= target
    BY <1>7, Zenon
  <2>2. \A m \in DOMAIN stores : m # n => trees'[m] = trees[m]
    BY <1>7, Zenon DEF RootInv, ShapeInv
  <2> QED
    BY <1>1, <1>3, <1>6, <2>1, <2>2, Zenon DEF RootInv, ContentsInv
<1> QED
  BY <1>9, <1>10, <1>11, <1>12, <1>13, <1>14, Zenon DEF RootInv

\* The metadata of the target is written when no tree has a later version.
LEMMA FlushRollbackStep ==
  ASSUME RootInv, Orderly, FlushRollback
  PROVE  RootInv'
<1>1. /\ step = "rollback" /\ left = {} /\ Stop /\ latestVersion' = target
      /\ commitInfo' = Put(commitInfo, target, [n \in DOMAIN stores |-> stores[n].version])
      /\ UNCHANGED <<trees, crashes, rollbacks>>
  BY Zenon DEF FlushRollback
<1>2. /\ target \in Nat \ {0} /\ target > UpgradeAt /\ target >= MinTarget /\ target >= FirstVersion
      /\ target < latestVersion /\ latestVersion \in Nat /\ latestVersion <= MaxVersion
      /\ Target \in {target, latestVersion} /\ target >= DynamicAt /\ DOMAIN stores = Live(target)
  BY <1>1, RollbackTarget, Zenon
<1>3. \A n \in DOMAIN stores : stores[n].version = target /\ \A w \in DOMAIN trees[n] : w <= target
  BY <1>1, Zenon DEF RootInv, ContentsInv
<1>4. commitInfo' = Put(commitInfo, target, [n \in Live(target) |-> target])
  BY <1>1, <1>2, <1>3, Zenon
<1>5. Coming' = target + 1 /\ Target' = target
  BY <1>1, <1>2, Zenon DEF Coming, BlockAfter, Target, Stop
<1>6. \A n \in Dynamic : DynamicAt = 0 => DOMAIN trees[n] = {}
  BY Zenon DEF RootInv, DynamicInv
<1>7. ShapeInv'
  BY <1>1, <1>2, Numbers DEF RootInv, ShapeInv, Stop, NoStores
<1>8. InfoInv'
  <2>1. /\ DOMAIN commitInfo' = DOMAIN commitInfo \cup {target}
        /\ commitInfo'[target] = [n \in Live(target) |-> target]
        /\ \A v \in DOMAIN commitInfo : v # target => commitInfo'[v] = commitInfo[v]
    BY <1>4, Zenon DEF Put
  <2>2. \A v \in FirstVersion .. target : v \in FirstVersion .. latestVersion
    BY <1>2, Numbers
  <2> QED
    BY <1>1, <1>2, <2>1, <2>2, Zenon DEF RootInv, InfoInv
<1>9. TreesInv'
  <2>1. \A n \in Names : \A w \in DOMAIN trees[n] : w \in Nat \ {0} /\ w <= target
    <3>1. Names \ Gone \subseteq Live(target) \cup {n \in Dynamic : DynamicAt = 0}
      BY <1>2, LiveAtEnds, Zenon
    <3>2. \A n \in Gone : \A w \in DOMAIN trees[n] : w <= target
      BY <1>2, NamesApart, Numbers DEF RootInv, TreesInv
    <3> QED
      BY <1>2, <1>3, <1>6, <3>1, <3>2, Zenon DEF RootInv, TreesInv
  <2>2. \A n \in Names : \A w \in DOMAIN trees[n] : w \in Nat \ {0} /\ w <= target + 1 /\ w # target + 1
    BY <1>2, <2>1
  <2>3. \A v \in FirstVersion .. target : v \in FirstVersion .. Target
    BY <1>2, Numbers
  <2>4. \A v \in FirstVersion .. target : \A n \in Live(v) : v \in DOMAIN trees[n] /\ trees[n][v] = Contents(n, v)
    BY <2>3, Zenon DEF RootInv, TreesInv
  <2>5. \A n \in Names : \A w \in DOMAIN trees[n] :
          /\ n \in First => w >= FirstVersion
          /\ n \in New => w > UpgradeAt
          /\ n \in Gone => w <= UpgradeAt + 1
    BY Zenon DEF RootInv, TreesInv
  <2> QED
    BY <1>1, <1>5, <2>2, <2>4, <2>5, Zenon DEF TreesInv
<1>10. DynamicInv'
  <2>1. target + 1 # DynamicAt /\ ~(target + 1 < DynamicAt)
    BY <1>2, Numbers
  <2> QED
    BY <1>1, <1>5, <1>6, <2>1, Zenon DEF DynamicInv, Stop
<1>11. MountedInv'
  BY <1>1, Zenon DEF MountedInv, Stop, NoStores
<1>12. ContentsInv'
  BY <1>1, Zenon DEF ContentsInv, Stop, NoStores
<1> QED
  BY <1>7, <1>8, <1>9, <1>10, <1>11, <1>12, Zenon DEF RootInv

------------------------------------------------------------------------------
(* A start *)

\* A tree asked for no version loads the only one it has, or starts empty.
LEMMA LoadedLast ==
  ASSUME NEW n, NEW i, NEW x \in Nat \ {0}, DOMAIN trees[n] \subseteq {x}
  PROVE  \/ DOMAIN trees[n] = {} /\ Loaded(n, 0, i) = [version |-> 0, contents |-> <<>>, initial |-> i]
         \/ x \in DOMAIN trees[n] /\ Loaded(n, 0, i) = [version |-> x, contents |-> trees[n][x], initial |-> i]
<1>1. CASE DOMAIN trees[n] = {}
  BY <1>1, Zenon DEF Loaded
<1>2. CASE DOMAIN trees[n] = {x}
  <2>1. Max({x}) = x
    BY DEF Max
  <2> QED
    BY <1>2, <2>1, Zenon DEF Loaded
<1> QED
  BY <1>1, <1>2, Zenon

\* A store loaded at a version has what its tree holds there.
LEMMA LoadedAt ==
  ASSUME NEW n, NEW i, NEW v \in Nat \ {0}
  PROVE  Loaded(n, v, i) = [version |-> v, contents |-> trees[n][v], initial |-> i]
BY Zenon DEF Loaded

\* What a start leaves: the stores of the latest version, those to be removed
\* among them after an upgrade, each loaded and ready for the next block.
Restarted ==
  /\ step' = "idle" /\ lastCommitInfo'.version = latestVersion
  /\ removalMap' = IF latestVersion = UpgradeAt THEN Gone ELSE {}
  /\ DOMAIN stores' = IF latestVersion = UpgradeAt THEN Live(Coming) \cup Gone ELSE Live(latestVersion)
  /\ \A n \in DOMAIN stores' : stores'[n] \in Tree /\ stores'[n].version <= MaxVersion /\ Fresh(n)'

\* The first start, or one after a crash in the first block.
LEMMA LoadFirst ==
  ASSUME RootInv, Orderly, LoadLatestVersion, latestVersion = 0
  PROVE  Restarted
<1>1. UNCHANGED disk /\ LoadVersion(0) /\ Coming = FirstVersion /\ Coming' = Coming /\ UpgradeAt # 0
  BY ComingBlock, Numbers, Zenon DEF LoadLatestVersion, RootInv, disk, Coming
<1>2. Mounted(0) = First
  BY Numbers DEF Mounted, RootInv, InfoInv
<1>3. \A n : ~IsAdded(0, n) /\ ~IsDeleted(0, n) /\ RenamedFrom(0, n) = {} /\ InitialVersion(0, n) = 0
  BY <1>1, Zenon DEF IsAdded, IsDeleted, RenamedFrom, InitialVersion
<1>4. \A n : GetCommitID(NoStores, n) = 0
  BY Zenon DEF GetCommitID, NoStores
<1>5. UNION {RenamedFrom(0, n) : n \in First} = {}
  BY <1>3, Zenon
<1>6. \A n : Moved(0, n, NoStores) = Loaded(n, 0, 0)
  BY <1>3, <1>4, Zenon DEF Moved
<1>7. /\ step' = "idle" /\ stores' = [n \in First |-> Loaded(n, 0, 0)]
      /\ lastCommitInfo' = [version |-> 0, infos |-> NoStores] /\ removalMap' = {}
  BY <1>1, <1>2, <1>3, <1>4, <1>5, <1>6, Zenon DEF LoadVersion, VersionMatches, CanLoad, Orderly
<1>8. ASSUME NEW n \in First
      PROVE  stores'[n] \in Tree /\ stores'[n].version <= MaxVersion /\ Fresh(n)'
  <2>1. n \in Names /\ n \in Live(Coming) /\ FirstBlock(n) = FirstVersion
    BY <1>1, NamesApart, FirstBlocks, LiveAtEnds, Zenon
  <2>2. \A w \in DOMAIN trees[n] : w = Coming
    BY <1>1, <2>1, Numbers DEF RootInv, TreesInv
  <2>3. trees' = trees /\ latestVersion' = 0 /\ Coming' = Coming /\ Coming \in Nat \ {0}
    BY <1>1, Numbers, Zenon DEF disk
  <2>4. stores'[n] = Loaded(n, 0, 0) /\ n \notin removalMap'
    BY <1>7, Zenon
  <2>5. CASE DOMAIN trees[n] = {} /\ stores'[n] = [version |-> 0, contents |-> <<>>, initial |-> 0]
    <3>1. Contents(n, Coming - 1) = <<>>
      BY <1>1, <2>1, <2>3, ContentsEmpty
    <3>2. stores'[n] \in Tree
      BY <2>5 DEF Tree
    <3>3. stores'[n].version = 0 /\ stores'[n].contents = <<>> /\ stores'[n].initial = 0
      BY <2>5
    <3>4. Fresh(n)'
      BY <2>3, <2>4, <3>1, <3>3, Zenon DEF Fresh
    <3> QED
      BY <3>2, <3>3, <3>4, Numbers
  <2>6. CASE Coming \in DOMAIN trees[n] /\ stores'[n] = [version |-> Coming, contents |-> trees[n][Coming], initial |-> 0]
    <3>1. trees[n][Coming] = Contents(n, Coming) /\ Coming <= MaxVersion
      BY <2>1, <2>6, Zenon DEF RootInv, TreesInv
    <3>2. Contents(n, Coming) \in Seq(Nat)
      BY <1>1, <2>1, <2>3, ContentsSeq
    <3>3. stores'[n] \in Tree
      BY <2>3, <2>6, <3>1, <3>2 DEF Tree
    <3>4. stores'[n].version = Coming /\ stores'[n].contents = Contents(n, Coming)
      BY <2>6, <3>1
    <3>5. Ahead(n)'
      BY <2>3, <2>6, <3>4, Zenon DEF Ahead
    <3> QED
      BY <2>3, <2>4, <3>1, <3>3, <3>4, <3>5, Zenon DEF Fresh
  <2> QED
    BY <2>2, <2>3, <2>4, <2>5, <2>6, LoadedLast, Zenon
<1>9. DOMAIN stores' = Live(latestVersion)
  BY <1>7, LiveAtEnds, Zenon
<1> QED
  BY <1>1, <1>7, <1>8, <1>9, Zenon DEF Restarted

\* A start at a version that no upgrade follows.
LEMMA LoadSame ==
  ASSUME RootInv, Orderly, LoadLatestVersion, latestVersion \notin {0, UpgradeAt}
  PROVE  Restarted
<1> DEFINE v == latestVersion
           infos == [n \in Live(v) |-> v]
<1>1. /\ UNCHANGED disk /\ LoadVersion(v) /\ Coming = v + 1 /\ Coming' = Coming
      /\ v \in Nat \ {0} /\ v # UpgradeAt /\ v >= FirstVersion /\ v <= MaxVersion /\ step = "down"
  BY ComingBlock DEF LoadLatestVersion, RootInv, ShapeInv, disk, Coming
<1>2. v \in DOMAIN commitInfo /\ commitInfo[v] = infos
  BY <1>1, Numbers DEF RootInv, InfoInv
<1>3. Mounted(v) = Live(v)
  <2>1. {n \in Dynamic : n \in Live(v)} = IF DynamicAt > 0 /\ DynamicAt <= v THEN Dynamic ELSE {}
    BY NamesApart, Zenon DEF Live
  <2> QED
    BY <1>1, <1>2, <2>1, Numbers DEF Mounted, Live
<1>4. \A n : ~IsAdded(v, n) /\ ~IsDeleted(v, n) /\ RenamedFrom(v, n) = {} /\ InitialVersion(v, n) = 0
  BY <1>1, Zenon DEF IsAdded, IsDeleted, RenamedFrom, InitialVersion
<1>5. \A n \in Live(v) : GetCommitID(infos, n) = v
  BY Zenon DEF GetCommitID
<1>6. UNION {RenamedFrom(v, n) : n \in Live(v)} = {}
  BY <1>4, Zenon
<1>7. \A n \in Live(v) : Moved(v, n, infos) = Loaded(n, v, 0)
  BY <1>4, <1>5 DEF Moved
<1>8. \A n \in Live(v) : v \in DOMAIN trees[n] /\ trees[n][v] = Contents(n, v)
  BY <1>1, Numbers DEF RootInv, TreesInv, Target
<1>9. /\ step' = "idle" /\ stores' = [n \in Live(v) |-> Loaded(n, v, 0)]
      /\ lastCommitInfo' = [version |-> v, infos |-> infos] /\ removalMap' = {}
  <2> HIDE DEF infos
  <2>1. \A n \in Live(v) : VersionMatches(v, infos, n) /\ CanLoad(n, GetCommitID(infos, n))
    BY <1>5, <1>8, Zenon DEF VersionMatches, CanLoad
  <2>2. Live(v) \cup {} = Live(v) /\ {n \in Live(v) : IsDeleted(v, n)} = {}
    BY <1>4, Zenon
  <2>3. /\ step' = "idle" /\ stores' = [n \in Live(v) |-> Moved(v, n, infos)]
        /\ lastCommitInfo' = [version |-> v, infos |-> infos] /\ removalMap' = {}
    BY <1>1, <1>2, <1>3, <1>6, <2>1, <2>2, Zenon DEF LoadVersion, Orderly
  <2> QED
    BY <1>7, <2>3, Zenon
<1>10. ASSUME NEW n \in Live(v)
       PROVE  stores'[n] \in Tree /\ stores'[n].version <= MaxVersion /\ Fresh(n)'
  <2>1. Contents(n, v) \in Seq(Nat)
    <3>1. FirstBlock(n) <= v
      BY <1>1, WrittenWhenLive, Zenon
    <3>2. FirstBlock(n) <= v + 1
      BY <1>1, <3>1, Numbers
    <3> QED
      BY <1>1, <3>2, ContentsSeq, Zenon
  <2>2. stores'[n] = [version |-> v, contents |-> Contents(n, v), initial |-> 0]
    BY <1>1, <1>8, <1>9, LoadedAt
  <2>3. stores'[n] \in Tree
    BY <1>1, <2>1, <2>2 DEF Tree
  <2>4. stores'[n].version = v /\ stores'[n].contents = Contents(n, v)
    BY <2>2
  <2>5. latestVersion' = v /\ Coming' - 1 = v
    BY <1>1 DEF disk
  <2> QED
    BY <1>1, <1>9, <2>3, <2>4, <2>5, Zenon DEF Fresh
<1> QED
  BY <1>1, <1>9, <1>10, Zenon DEF Restarted
==============================================================================
