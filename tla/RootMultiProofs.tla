--------------------------- MODULE RootMultiProofs ---------------------------
(***************************************************************************)
(* rootmulti.Store starts again and commits what its blocks wrote, every   *)
(* version all or nothing: proved for every upgrade, initial version and   *)
(* number of crashes and rollbacks (Orderly says where they may be).       *)
(***************************************************************************)
EXTENDS RootMultiLemmas

------------------------------------------------------------------------------
(* A start after an upgrade *)

\* The contents of a store that is renamed are those it had under the old name,
\* which the block after the upgrade adds to.
LEMMA ContentsRenamed ==
  ASSUME NEW n \in DOMAIN Renamed
  PROVE  /\ Contents(n, UpgradeAt) = Contents(Renamed[n], UpgradeAt)
         /\ Contents(n, UpgradeAt) \in Seq(Nat) /\ Contents(n, UpgradeAt + 1) \in Seq(Nat)
         /\ Len(Contents(n, UpgradeAt + 1)) > Len(Contents(n, UpgradeAt))
         /\ Len(Contents(n, UpgradeAt)) > 0
<1>1. FirstBlock(n) = FirstVersion /\ FirstBlock(Renamed[n]) = FirstVersion
  BY FirstBlocks, NamesApart, Zenon DEF Gone
<1>2. FirstBlock(n) <= UpgradeAt + 1 /\ FirstBlock(n) <= (UpgradeAt + 1) + 1 /\ UpgradeAt + 1 \in Nat
  BY <1>1, Numbers
<1>3. Contents(n, UpgradeAt) \in Seq(Nat) /\ Len(Contents(n, UpgradeAt)) = UpgradeAt - FirstVersion + 1
  BY <1>1, <1>2, ContentsSeq, Numbers, Zenon
<1>4. Contents(n, UpgradeAt + 1) \in Seq(Nat) /\ Len(Contents(n, UpgradeAt + 1)) = (UpgradeAt + 1) - FirstVersion + 1
  BY <1>1, <1>2, ContentsSeq, Numbers, Zenon
<1>5. Contents(n, UpgradeAt) = Contents(Renamed[n], UpgradeAt)
  BY <1>1, Zenon DEF Contents
<1> QED
  BY <1>3, <1>4, <1>5, Numbers

\* A new store after the upgrade is as its first block finds it, or as it left it.
LEMMA LoadedNew ==
  ASSUME RootInv, Orderly, latestVersion = UpgradeAt, NEW n \in New
  PROVE  \/ Loaded(n, 0, Coming) = [version |-> 0, contents |-> <<>>, initial |-> Coming]
         \/ /\ Loaded(n, 0, Coming) = [version |-> Coming, contents |-> Contents(n, Coming), initial |-> Coming]
            /\ Coming \in DOMAIN trees[n] /\ Coming <= MaxVersion
<1>1. Coming = UpgradeAt + 1 /\ Coming \in Nat \ {0}
  BY ComingBlock, Numbers, Zenon DEF RootInv
<1>2. n \in Names /\ n \in Live(Coming)
  BY <1>1, NamesApart, LiveUpgraded, Zenon
<1>3. DOMAIN trees[n] \subseteq {Coming}
  BY <1>1, <1>2, Numbers DEF RootInv, TreesInv
<1>4. Coming \in DOMAIN trees[n] => trees[n][Coming] = Contents(n, Coming) /\ Coming <= MaxVersion
  BY <1>2, Zenon DEF RootInv, TreesInv
<1>5. \/ Loaded(n, 0, Coming) = [version |-> 0, contents |-> <<>>, initial |-> Coming]
      \/ Coming \in DOMAIN trees[n] /\ Loaded(n, 0, Coming) = [version |-> Coming, contents |-> trees[n][Coming], initial |-> Coming]
  BY <1>1, <1>3, LoadedLast, Zenon
<1> QED
  BY <1>4, <1>5, Zenon

\* Other contents for a tree.
LEMMA WithContents ==
  ASSUME NEW t \in Tree, NEW c \in Seq(Nat)
  PROVE  LET u == [t EXCEPT !.contents = c]
         IN  u \in Tree /\ u.version = t.version /\ u.initial = t.initial /\ u.contents = c
BY Zenon DEF Tree

\* The start of the second binary, or one after a crash in its first block.
LEMMA LoadUpgraded ==
  ASSUME RootInv, Orderly, LoadLatestVersion, latestVersion = UpgradeAt
  PROVE  Restarted
<1> DEFINE v == UpgradeAt
           infos == [n \in Live(v) |-> v]
           Olds == {Renamed[n] : n \in DOMAIN Renamed}
<1>1. /\ UNCHANGED disk /\ LoadVersion(v) /\ Coming = v + 1 /\ Coming' = Coming
      /\ v \in Nat \ {0} /\ v >= FirstVersion /\ v <= MaxVersion /\ step = "down"
      /\ trees' = trees /\ latestVersion' = v
  BY ComingBlock, Numbers DEF LoadLatestVersion, RootInv, ShapeInv, disk, Coming
<1>2. v \in DOMAIN commitInfo /\ commitInfo[v] = infos
  BY <1>1, Numbers DEF RootInv, InfoInv
<1>3. Mounted(v) = Second \cup Deleted \cup (Live(v) \cap Dynamic)
  BY <1>1, <1>2 DEF Mounted
<1>4. \A n \in Live(v) : v \in DOMAIN trees[n] /\ trees[n][v] = Contents(n, v) /\ Contents(n, v) \in Seq(Nat)
  <2>1. \A n \in Live(v) : FirstBlock(n) <= v /\ FirstBlock(n) \in Nat
    BY <1>1, WrittenWhenLive, Numbers, Zenon
  <2>2. \A n \in Live(v) : FirstBlock(n) <= v + 1
    BY <1>1, <2>1
  <2>3. v \in FirstVersion .. Target
    BY <1>1, Numbers DEF Target
  <2> QED
    BY <1>1, <2>2, <2>3, ContentsSeq, Zenon DEF RootInv, TreesInv
<1>5. /\ \A n \in Live(v) : GetCommitID(infos, n) = v
      /\ \A n \in New : GetCommitID(infos, n) = 0
  BY LiveUpgraded, Zenon DEF GetCommitID
<1>6. /\ \A n : (IsAdded(v, n) <=> n \in Added) /\ (IsDeleted(v, n) <=> n \in Deleted)
      /\ \A n : RenamedFrom(v, n) = IF n \in DOMAIN Renamed THEN {Renamed[n]} ELSE {}
      /\ \A n : InitialVersion(v, n) = IF n \in New THEN v + 1 ELSE 0
  BY Zenon DEF IsAdded, IsDeleted, RenamedFrom, InitialVersion, New
<1>7. UNION {RenamedFrom(v, n) : n \in Mounted(v)} = Olds
  <2>1. DOMAIN Renamed \subseteq Mounted(v)
    BY <1>3, Zenon DEF Second
  <2> QED
    BY <1>6, <2>1, Zenon
<1>8. /\ Gone = Deleted \cup Olds /\ Gone \subseteq Live(v) /\ Deleted \cap Olds = {}
      /\ Mounted(v) \cup Olds = Live(v + 1) \cup Gone
      /\ Mounted(v) \ New \subseteq Live(v)
      /\ \A n \in Live(v + 1) : n \in Mounted(v) /\ n \notin Gone
  BY <1>3, LiveUpgraded, NamesApart, RootAssumption DEF Gone, RootAssumption
<1> HIDE DEF infos, Olds
<1>9. /\ \A n \in Mounted(v) : VersionMatches(v, infos, n) /\ CanLoad(n, GetCommitID(infos, n))
      /\ \A o \in Olds : CanLoad(o, GetCommitID(infos, o))
  <2>1. \A n \in New : VersionMatches(v, infos, n) /\ CanLoad(n, GetCommitID(infos, n))
    BY <1>5, <1>6, Zenon DEF VersionMatches, CanLoad, New
  <2>2. \A n \in Live(v) : VersionMatches(v, infos, n) /\ CanLoad(n, GetCommitID(infos, n))
    BY <1>4, <1>5, Zenon DEF VersionMatches, CanLoad
  <2> QED
    BY <1>8, <2>1, <2>2, Zenon
<1>10. /\ step' = "idle"
       /\ stores' = [n \in Mounted(v) \cup Olds |->
                       IF n \in Olds THEN [Loaded(n, GetCommitID(infos, n), 0) EXCEPT !.contents = <<>>]
                       ELSE Moved(v, n, infos)]
       /\ lastCommitInfo' = [version |-> v, infos |-> infos]
       /\ removalMap' = Olds \cup {n \in Mounted(v) : IsDeleted(v, n)}
  BY <1>1, <1>2, <1>7, <1>9, Zenon DEF LoadVersion, Orderly
<1>11. removalMap' = Gone
  <2>1. {n \in Mounted(v) : IsDeleted(v, n)} = Deleted
    BY <1>3, <1>6, Zenon
  <2> QED
    BY <1>8, <1>10, <2>1, Zenon
<1>12. DOMAIN stores' = Live(Coming) \cup Gone
  BY <1>1, <1>8, <1>10, Zenon
<1>13. ASSUME NEW n \in Gone
       PROVE  stores'[n] \in Tree /\ stores'[n].version <= MaxVersion /\ Fresh(n)'
  <2>1. PICK t \in Tree : t = Loaded(n, v, 0) /\ t.version = v
    <3>1. n \in Live(v)
      BY <1>8, Zenon
    <3>2. Loaded(n, v, 0) = [version |-> v, contents |-> Contents(n, v), initial |-> 0]
      BY <1>1, <1>4, <3>1, LoadedAt, Zenon
    <3>3. [version |-> v, contents |-> Contents(n, v), initial |-> 0] \in Tree
      BY <1>1, <1>4, <3>1, Zenon DEF Tree
    <3>4. Loaded(n, v, 0).version = v
      BY <3>2
    <3> QED
      BY <3>2, <3>3, <3>4, Zenon
  <2>2. n \notin New /\ GetCommitID(infos, n) = v /\ n \in Mounted(v) \cup Olds
    BY <1>5, <1>8, LiveUpgraded, Zenon
  <2>3. stores'[n] = [t EXCEPT !.contents = <<>>]
    <3>1. CASE n \in Olds
      BY <1>10, <2>1, <2>2, <3>1, Zenon
    <3>2. CASE n \notin Olds
      <4>1. IsDeleted(v, n) /\ InitialVersion(v, n) = 0
        BY <1>6, <1>8, <2>2, <3>2, Zenon
      <4>2. Moved(v, n, infos) = [t EXCEPT !.contents = <<>>]
        BY <2>1, <2>2, <4>1, Zenon DEF Moved
      <4> QED
        BY <1>10, <2>2, <3>2, <4>2, Zenon
    <3> QED
      BY <3>1, <3>2, Zenon
  <2>4. stores'[n] \in Tree /\ stores'[n].version = v /\ stores'[n].contents = <<>>
    <3>1. PICK c \in Seq(Nat) : c = <<>>
      <4>1. <<>> \in Seq(Nat)
        OBVIOUS
      <4> QED
        BY <4>1, Zenon
    <3>2. stores'[n] = [t EXCEPT !.contents = c]
      BY <2>3, <3>1, Zenon
    <3>3. stores'[n] \in Tree /\ stores'[n].version = t.version /\ stores'[n].contents = c
      BY <3>2, WithContents
    <3> QED
      BY <2>1, <3>1, <3>3, Zenon
  <2> QED
    BY <1>1, <1>11, <2>4, Zenon DEF Fresh
<1>14. ASSUME NEW n \in Live(Coming)
       PROVE  stores'[n] \in Tree /\ stores'[n].version <= MaxVersion /\ Fresh(n)'
  <2>1. n \in Live(v + 1) /\ n \in Mounted(v) /\ n \notin Olds /\ n \notin Deleted /\ n \notin removalMap'
    BY <1>1, <1>8, <1>11, Zenon
  <2>2. stores'[n] = Moved(v, n, infos) /\ ~IsDeleted(v, n)
    BY <1>6, <1>10, <2>1, Zenon
  <2>3. CASE n \notin New
    <3>1. n \in Live(v) /\ n \notin DOMAIN Renamed
      BY <1>8, <2>1, <2>3, Zenon DEF New
    <3>2. stores'[n] = Loaded(n, v, 0)
      BY <1>5, <1>6, <2>2, <2>3, <3>1, Zenon DEF Moved
    <3>3. stores'[n] = [version |-> v, contents |-> Contents(n, v), initial |-> 0]
      BY <1>1, <1>4, <3>1, <3>2, LoadedAt
    <3>4. stores'[n] \in Tree
      BY <1>1, <1>4, <3>1, <3>3 DEF Tree
    <3>5. stores'[n].version = v /\ stores'[n].contents = Contents(n, v)
      BY <3>3
    <3>6. Coming' - 1 = v
      BY <1>1
    <3> QED
      BY <1>1, <2>1, <3>4, <3>5, <3>6, Zenon DEF Fresh
  <2>4. CASE n \in New
    <3> DEFINE t == Loaded(n, 0, Coming)
    <3>1. GetCommitID(infos, n) = 0 /\ InitialVersion(v, n) = Coming
      BY <1>1, <1>5, <1>6, <2>4, Zenon
    <3>2. Coming' - 1 = v /\ Coming \in Nat \ {0}
      BY <1>1
    <3>3. n \in Added => stores'[n] = t
      <4>1. n \in Added => n \notin DOMAIN Renamed
        BY RootAssumption, Zenon DEF RootAssumption
      <4> QED
        BY <1>6, <2>2, <3>1, <4>1, Zenon DEF Moved
    <3>4. n \in DOMAIN Renamed =>
            stores'[n] = [t EXCEPT !.contents = IF Len(@) > Len(Contents(n, v)) THEN @ ELSE Contents(n, v)]
      <4> SUFFICES ASSUME n \in DOMAIN Renamed
                   PROVE  stores'[n] = [t EXCEPT !.contents = IF Len(@) > Len(Contents(n, v)) THEN @ ELSE Contents(n, v)]
        BY Zenon
      <4>1. Renamed[n] \in Live(v)
        BY <1>8, Zenon DEF Gone
      <4>2. Loaded(Renamed[n], GetCommitID(infos, Renamed[n]), 0).contents = Contents(n, v)
        <5>1. GetCommitID(infos, Renamed[n]) = v /\ trees[Renamed[n]][v] = Contents(n, v)
          BY <1>4, <1>5, <4>1, ContentsRenamed, Zenon
        <5>2. Loaded(Renamed[n], v, 0) = [version |-> v, contents |-> Contents(n, v), initial |-> 0]
          BY <1>1, <5>1, LoadedAt
        <5> QED
          BY <5>1, <5>2
      <4>3. RenamedFrom(v, n) = {Renamed[n]}
        BY <1>6, Zenon
      <4>4. {Loaded(o, GetCommitID(infos, o), 0).contents : o \in RenamedFrom(v, n)} = {Contents(n, v)}
        BY <4>2, <4>3
      <4>5. (CHOOSE c \in {Contents(n, v)} : TRUE) = Contents(n, v)
        BY Zenon
      <4> QED
        BY <2>2, <3>1, <4>4, <4>5, Zenon DEF Moved, Orderly
    <3>5. CASE t = [version |-> 0, contents |-> <<>>, initial |-> Coming]
      <4>1. /\ stores'[n] \in Tree /\ stores'[n].version = 0 /\ stores'[n].initial = Coming
            /\ stores'[n].contents = Contents(n, v)
        <5>1. t \in Tree /\ t.version = 0 /\ t.initial = Coming /\ t.contents = <<>>
          <6>1. [version |-> 0, contents |-> <<>>, initial |-> Coming] \in Tree
            BY <3>2 DEF Tree
          <6> QED
            BY <3>5, <6>1
        <5>2. CASE n \in Added
          <6>1. Contents(n, v) = <<>>
            BY <1>1, <5>2, FirstBlocks, ContentsEmpty, Zenon
          <6> QED
            BY <3>3, <5>1, <5>2, <6>1, Zenon
        <5>3. CASE n \in DOMAIN Renamed
          <6>1. ~(Len(<<>>) > Len(Contents(n, v))) /\ Contents(n, v) \in Seq(Nat)
            BY <5>3, ContentsRenamed
          <6>2. stores'[n] = [t EXCEPT !.contents = Contents(n, v)]
            BY <3>4, <5>1, <5>3, <6>1, Zenon
          <6> QED
            BY <5>1, <6>1, <6>2, WithContents
        <5> QED
          BY <2>4, <5>2, <5>3, Zenon DEF New
      <4> QED
        BY <1>1, <2>1, <3>2, <4>1, Numbers DEF Fresh
    <3>6. CASE /\ t = [version |-> Coming, contents |-> Contents(n, Coming), initial |-> Coming]
               /\ Coming \in DOMAIN trees[n] /\ Coming <= MaxVersion
      <4>1. stores'[n] \in Tree /\ stores'[n].version = Coming /\ stores'[n].contents = Contents(n, Coming)
        <5>1. Contents(n, Coming) \in Seq(Nat)
          <6>1. FirstBlock(n) <= Coming
            BY <1>1, WrittenWhenLive, ComingBlock, Zenon DEF RootInv
          <6>2. FirstBlock(n) <= Coming + 1
            BY <3>2, <6>1, Numbers
          <6> QED
            BY <3>2, <6>2, ContentsSeq, Zenon
        <5>2. t \in Tree /\ t.version = Coming /\ t.contents = Contents(n, Coming)
          <6>1. [version |-> Coming, contents |-> Contents(n, Coming), initial |-> Coming] \in Tree
            BY <3>2, <5>1, Zenon DEF Tree
          <6> QED
            BY <3>6, <6>1
        <5>3. CASE n \in Added
          BY <3>3, <5>2, <5>3, Zenon
        <5>4. CASE n \in DOMAIN Renamed
          <6>1. Len(Contents(n, Coming)) > Len(Contents(n, v))
            BY <1>1, <5>4, ContentsRenamed, Zenon
          <6>2. stores'[n] = [t EXCEPT !.contents = Contents(n, Coming)]
            BY <3>4, <5>2, <5>4, <6>1, Zenon
          <6> QED
            BY <5>1, <5>2, <6>2, WithContents
        <5> QED
          BY <2>4, <5>3, <5>4, Zenon DEF New
      <4>2. Ahead(n)'
        BY <1>1, <3>6, <4>1, Zenon DEF Ahead
      <4> QED
        BY <1>1, <2>1, <3>6, <4>1, <4>2, Zenon DEF Fresh
    <3> QED
      BY <2>4, <3>5, <3>6, LoadedNew, Zenon
  <2> QED
    BY <2>3, <2>4, Zenon
<1> QED
  BY <1>1, <1>10, <1>11, <1>12, <1>13, <1>14, Zenon DEF Restarted

\* A start after a clean stop or a crash: it succeeds, and the stores are ready for
\* the next block.
LEMMA LoadLatestVersionStep ==
  ASSUME RootInv, Orderly, LoadLatestVersion
  PROVE  RootInv'
<1>1. /\ step = "down" /\ UNCHANGED <<disk, commitHeader, left, target, crashes, rollbacks>>
      /\ trees' = trees /\ latestVersion' = latestVersion
  BY Zenon DEF LoadLatestVersion, disk
<1>2. Restarted
  BY LoadFirst, LoadSame, LoadUpgraded, Zenon
<1>3. step' = "idle" /\ Target' = Target
  BY <1>1, <1>2, Zenon DEF Restarted, Target
<1>4. InfoInv' /\ TreesInv' /\ Coming' = Coming
  BY <1>1, <1>3, DiskFrame, Zenon
<1>5. commitHeader = 0 /\ commitHeader' = 0 /\ left' = {} /\ latestVersion \in Nat /\ Coming \in Nat
  BY <1>1, ComingBlock, Zenon DEF RootInv, DynamicInv, MountedInv, ShapeInv
<1>6. DOMAIN stores' \subseteq Names /\ removalMap' \subseteq DOMAIN stores'
  <2>1. Live(Coming) \cup Gone \subseteq Names /\ Live(latestVersion) \subseteq Names
    BY <1>5, LiveNames, NamesApart, Zenon
  <2> QED
    BY <1>2, <2>1, Zenon DEF Restarted
<1>7. ShapeInv'
  BY <1>1, <1>2, <1>3, <1>5, <1>6, Zenon DEF RootInv, ShapeInv, Restarted
<1>8. DynamicInv'
  <2>1. Coming = DynamicAt => DynamicAt = 0
    BY <1>1, <1>5, Numbers DEF RootInv, DynamicInv
  <2> QED
    BY <1>1, <1>3, <1>4, <1>5, <2>1, Zenon DEF RootInv, DynamicInv
<1>9. MountedInv'
  BY <1>1, <1>2, <1>3, <1>4, <1>5, Zenon DEF MountedInv, Restarted
<1>10. ContentsInv'
  BY <1>2, <1>3, Zenon DEF ContentsInv, Restarted
<1> QED
  BY <1>4, <1>7, <1>8, <1>9, <1>10, Zenon DEF RootInv

------------------------------------------------------------------------------
(* The theorems *)

\* Every step keeps the invariant.
LEMMA RootStep ==
  ASSUME RootInv, Orderly, [Next]_vars
  PROVE  RootInv'
<1>1. CASE LoadLatestVersion
  BY <1>1, LoadLatestVersionStep, Zenon
<1>2. CASE SetInitialVersion
  BY <1>2, SetInitialVersionStep, Zenon
<1>3. CASE RunBlock
  BY <1>3, RunBlockStep, Zenon
<1>4. CASE DynamicAddNamesapceStore
  BY <1>4, DynamicAddStep, Zenon
<1>5. CASE Halt
  BY <1>5, HaltStep, Zenon
<1>6. CASE BeginCommit
  BY <1>6, BeginCommitStep, Zenon
<1>7. CASE SetLastCommitInfo
  BY <1>7, SetLastCommitInfoStep, Zenon
<1>8. CASE FlushMetadata
  BY <1>8, FlushMetadataStep, Zenon
<1>9. CASE FlushRollback
  BY <1>9, FlushRollbackStep, Zenon
<1>10. CASE Crash
  BY <1>10, CrashStep, Zenon
<1>11. CASE \E n \in DOMAIN stores : CommitStore(n) \/ OverwriteStore(n)
  BY <1>11, CommitStoreStep, OverwriteStoreStep, Zenon
<1>12. CASE \E v \in MinTarget .. MaxVersion : BeginRollback(v)
  BY <1>12, BeginRollbackStep, Zenon
<1>13. CASE UNCHANGED vars
  <2>1. /\ trees' = trees /\ commitInfo' = commitInfo /\ latestVersion' = latestVersion /\ step' = step
        /\ stores' = stores /\ lastCommitInfo' = lastCommitInfo /\ commitHeader' = commitHeader
        /\ removalMap' = removalMap /\ left' = left /\ target' = target
        /\ crashes' = crashes /\ rollbacks' = rollbacks
    BY <1>13, Zenon DEF vars, disk, process
  <2>2. Target' = Target
    BY <2>1, Zenon DEF Target
  <2>3. InfoInv' /\ TreesInv' /\ Coming' = Coming
    BY <2>1, <2>2, DiskFrame, Zenon DEF disk
  <2>4. ShapeInv'
    BY <2>1, Zenon DEF RootInv, ShapeInv
  <2>5. DynamicInv'
    BY <2>1, <2>3, Zenon DEF RootInv, DynamicInv
  <2>6. MountedInv'
    BY <2>1, <2>3, Zenon DEF RootInv, MountedInv
  <2>7. ContentsInv'
    BY <2>1, <2>3 DEF RootInv, ContentsInv, Fresh, Ahead, Behind, Saved
  <2> QED
    BY <2>3, <2>4, <2>5, <2>6, <2>7, Zenon DEF RootInv
<1> QED
  BY <1>1, <1>2, <1>3, <1>4, <1>5, <1>6, <1>7, <1>8, <1>9, <1>10, <1>11, <1>12, <1>13, Zenon DEF Next

\* The invariant: between two steps of any process, crashes and rollbacks included,
\* the trees hold every version up to the latest and at most the one that comes,
\* and the stores in memory are ready to save it or have saved it.
THEOREM RootInvariant == Orderly => (Spec => []RootInv)
<1> SUFFICES ASSUME Orderly
             PROVE  Spec => []RootInv
  BY Zenon
<1>1. Init => RootInv
  BY InitiallyRootInv, Zenon
<1>2. RootInv /\ [Next]_vars => RootInv'
  BY RootStep, Zenon
<1> QED
  BY <1>1, <1>2, PTL DEF Spec

\* Type correctness.
THEOREM RootTypes == Orderly => (Spec => []TypeOK)
<1>1. RootInv => TypeOK
  <2> SUFFICES ASSUME RootInv
               PROVE  TypeOK
    BY Zenon
  <2>1. \A n \in DOMAIN stores : stores[n].version \in 0 .. MaxVersion
    BY Numbers DEF RootInv, ShapeInv, Tree
  <2> QED
    BY <2>1, Zenon DEF RootInv, ShapeInv, TypeOK
<1> QED
  BY <1>1, RootInvariant, PTL

\* LoadLatestVersion succeeds after every stop, and no commit panics.
THEOREM AlwaysStartsAgain == Orderly => (Spec => []StartsAgain)
<1>1. RootInv => StartsAgain
  BY Zenon DEF RootInv, ShapeInv, StartsAgain
<1> QED
  BY <1>1, RootInvariant, PTL

------------------------------------------------------------------------------
(* What a reader of the metadata finds *)

\* The versions up to x, each with what the blocks wrote.
Ideal(x) ==
  [v \in {0} \cup (FirstVersion .. x) |->
     IF v = 0 THEN [n \in First |-> <<>>] ELSE [n \in Live(v) |-> Contents(n, v)]]

\* The database holds these versions up to the latest one, or up to the target of
\* a rollback that has begun to cut the trees.
LEMMA CommittedIsIdeal ==
  ASSUME RootInv, Orderly
  PROVE  Committed = Ideal(Target) /\ Target \in Nat /\ Target <= latestVersion /\ latestVersion \in Nat
<1>1. Target \in Nat /\ Target <= latestVersion /\ latestVersion \in Nat
  <2>1. latestVersion \in Nat
    BY ComingBlock, Zenon DEF RootInv
  <2>2. step = "rollback" => target \in Nat /\ target < latestVersion
    BY RollbackTarget, Zenon
  <2> QED
    BY <2>1, <2>2 DEF Target
<1>2. \A v \in FirstVersion .. Target :
        /\ v \in DOMAIN commitInfo /\ commitInfo[v] = [n \in Live(v) |-> v] /\ v # 0
        /\ \A n \in Live(v) : v \in DOMAIN trees[n] /\ trees[n][v] = Contents(n, v)
  <2>1. \A v \in FirstVersion .. Target : v \in FirstVersion .. latestVersion /\ v # 0
    BY <1>1, Numbers
  <2> QED
    BY <2>1, Zenon DEF RootInv, InfoInv, TreesInv
<1>3. {w \in DOMAIN commitInfo : w <= Target} = FirstVersion .. Target
  <2>1. \A w \in DOMAIN commitInfo : w \in Nat /\ w >= FirstVersion
    BY Zenon DEF RootInv, InfoInv
  <2>2. \A w \in DOMAIN commitInfo : w <= Target => w \in FirstVersion .. Target
    BY <1>1, <2>1, Numbers
  <2>3. \A w \in FirstVersion .. Target : w <= Target
    BY <1>1, Numbers
  <2> QED
    BY <1>2, <2>2, <2>3, Zenon
<1>4. \A v \in FirstVersion .. Target :
        [n \in DOMAIN commitInfo[v] |->
           IF commitInfo[v][n] \in DOMAIN trees[n] THEN trees[n][commitInfo[v][n]] ELSE <<0>>]
        = [n \in Live(v) |-> Contents(n, v)]
  <2> SUFFICES ASSUME NEW v \in FirstVersion .. Target
               PROVE  [n \in DOMAIN commitInfo[v] |->
                         IF commitInfo[v][n] \in DOMAIN trees[n] THEN trees[n][commitInfo[v][n]] ELSE <<0>>]
                      = [n \in Live(v) |-> Contents(n, v)]
    BY Zenon
  <2>1. DOMAIN commitInfo[v] = Live(v) /\ \A n \in Live(v) : commitInfo[v][n] = v
    BY <1>2, Zenon
  <2> QED
    BY <1>2, <2>1
<1>5. Committed = Ideal(Target)
  BY <1>3, <1>4, Zenon DEF Committed, Ideal
<1> QED
  BY <1>1, <1>5, Zenon

\* Between blocks the latest version holds what the stores hold.
THEOREM CurrentStateCommitted == Orderly => (Spec => []CommitsCurrentState)
<1> SUFFICES ASSUME Orderly
             PROVE  Spec => []CommitsCurrentState
  BY Zenon
<1>1. RootInv => CommitsCurrentState
  <2> SUFFICES ASSUME RootInv, step = "idle", latestVersion \notin {0, UpgradeAt}
               PROVE  \A n \in DOMAIN Committed[latestVersion] :
                        Committed[latestVersion][n] = stores[n].contents
    BY Zenon DEF CommitsCurrentState
  <2>1. Target = latestVersion
    BY Zenon DEF Target
  <2>2. latestVersion \in Nat /\ latestVersion >= FirstVersion /\ Coming - 1 = latestVersion
    BY ComingBlock DEF RootInv
  <2>3. Committed = Ideal(latestVersion)
    BY <2>1, CommittedIsIdeal, Zenon
  <2>4. Committed[latestVersion] = [n \in Live(latestVersion) |-> Contents(n, latestVersion)]
    BY <2>2, <2>3, Numbers DEF Ideal
  <2>5. DOMAIN stores = Live(latestVersion) /\ removalMap = {}
    BY Zenon DEF RootInv, MountedInv
  <2>6. \A n \in Live(latestVersion) : stores[n].contents = Contents(n, latestVersion)
    BY <2>2, <2>5, Zenon DEF RootInv, ContentsInv, Fresh
  <2> QED
    BY <2>4, <2>6, Zenon
<1> QED
  BY <1>1, RootInvariant, PTL

------------------------------------------------------------------------------
(* AtomicCommits is implemented *)

\* The block after a version makes the next one, with or without an upgrade and
\* stores that are added.
LEMMA IdealCommit ==
  ASSUME Orderly, NEW v \in Nat, v = 0 \/ v >= FirstVersion
  PROVE  LET a == Commits!After(Ideal(v)[v], v)
         IN  a.version = BlockAfter(v) /\ a.stores = [n \in Live(BlockAfter(v)) |-> Contents(n, BlockAfter(v))]
<1> DEFINE N == BlockAfter(v)
           S == Ideal(v)[v]
           T == IF v = UpgradeAt THEN Commits!Upgraded(S) ELSE S
<1>1. /\ N \in Nat \ {0} /\ N >= FirstVersion /\ N - 1 \in Nat /\ (N - 1) + 1 = N
      /\ v = 0 => N = FirstVersion
      /\ v # 0 => N = v + 1 /\ N - 1 = v
  BY Numbers DEF BlockAfter
<1>2. N = IF v = 0 /\ Initial > 1 THEN Initial ELSE v + 1
  BY Numbers DEF BlockAfter, FirstVersion
<1>3. S = IF v = 0 THEN [n \in First |-> <<>>] ELSE [n \in Live(v) |-> Contents(n, v)]
  BY Numbers DEF Ideal
<1>4. \A n \in Live(N) : FirstBlock(n) <= N
  BY <1>1, WrittenWhenLive, Zenon
<1>5. \A n \in Live(N) : Append(Contents(n, N - 1), N) = Contents(n, N)
  BY <1>1, <1>4, ContentsNext, Zenon
<1>6. /\ DOMAIN T \cup (IF N = DynamicAt THEN Dynamic ELSE {}) = Live(N)
      /\ \A n \in DOMAIN T : T[n] = Contents(n, N - 1)
      /\ \A n \in Live(N) \ DOMAIN T : FirstBlock(n) = N
  <2>1. CASE v = 0
    <3>1. Live(N) = First /\ N # DynamicAt /\ v # UpgradeAt
      BY <1>1, <2>1, LiveAtEnds, Numbers DEF Orderly
    <3>2. \A n \in First : Contents(n, N - 1) = <<>>
      BY <1>1, <2>1, FirstBlocks, ContentsEmpty, Zenon
    <3> QED
      BY <1>3, <2>1, <3>1, <3>2, Zenon
  <2>2. CASE v = UpgradeAt
    <3>1. v # 0 /\ N = UpgradeAt + 1 /\ N - 1 = UpgradeAt /\ N # DynamicAt
      BY <1>1, <2>2, Numbers DEF Orderly
    <3>2. S = [n \in Live(UpgradeAt) |-> Contents(n, UpgradeAt)]
      BY <1>3, <2>2, <3>1, Zenon
    <3>3. Commits!Second = Second
      BY Zenon DEF Commits!Second, Second
    <3>4. T = [n \in Second \cup (Live(UpgradeAt) \cap Dynamic) |->
                 IF n \in DOMAIN Renamed THEN S[Renamed[n]] ELSE IF n \in Added THEN <<>> ELSE S[n]]
      BY <2>2, <3>2, <3>3, Zenon DEF Commits!Upgraded
    <3>5. DOMAIN T = Live(N)
      BY <3>1, <3>4, LiveUpgraded, Zenon
    <3>6. ASSUME NEW n \in Live(N)
          PROVE  T[n] = Contents(n, UpgradeAt)
      <4>1. T[n] = IF n \in DOMAIN Renamed THEN S[Renamed[n]] ELSE IF n \in Added THEN <<>> ELSE S[n]
        BY <3>4, <3>5, Zenon
      <4>2. CASE n \in DOMAIN Renamed
        <5>1. Renamed[n] \in Live(UpgradeAt)
          BY <4>2, LiveUpgraded, Zenon DEF Gone
        <5> QED
          BY <3>2, <4>1, <4>2, <5>1, ContentsRenamed, Zenon
      <4>3. CASE n \notin DOMAIN Renamed /\ n \in Added
        <5>1. Contents(n, UpgradeAt) = <<>>
          BY <4>3, FirstBlocks, ContentsEmpty, Numbers, Zenon
        <5> QED
          BY <4>1, <4>3, <5>1, Zenon
      <4>4. CASE n \notin DOMAIN Renamed /\ n \notin Added
        <5>1. n \in Live(UpgradeAt)
          BY <3>1, <4>4, LiveUpgraded, Zenon DEF New
        <5> QED
          BY <3>2, <4>1, <4>4, <5>1, Zenon
      <4> QED
        BY <4>2, <4>3, <4>4, Zenon
    <3> QED
      BY <3>1, <3>5, <3>6, Zenon
  <2>3. CASE v \notin {0, UpgradeAt}
    <3>1. T = [n \in Live(v) |-> Contents(n, v)] /\ N - 1 = v /\ N = v + 1
      BY <1>1, <1>3, <2>3, Zenon
    <3>2. DOMAIN T = Live(v) /\ \A n \in Live(v) : T[n] = Contents(n, N - 1)
      BY <3>1, Zenon
    <3>3. Live(v) \cup (IF N = DynamicAt THEN Dynamic ELSE {}) = Live(N)
      BY <1>1, <2>3, <3>1, Numbers DEF Live
    <3>4. \A n \in Live(N) \ Live(v) : FirstBlock(n) = N
      BY <3>3, FirstBlocks, Zenon
    <3> QED
      BY <3>2, <3>3, <3>4
  <2> QED
    BY <2>1, <2>2, <2>3, Zenon
<1> HIDE DEF T
<1>7. Commits!Run(T, N) = [n \in Live(N) |-> Contents(n, N)]
  <2>1. \A n \in Live(N) \ DOMAIN T : Contents(n, N - 1) = <<>>
    BY <1>1, <1>6, ContentsEmpty, Zenon
  <2>2. \A n \in Live(N) \ DOMAIN T : <<N>> = Contents(n, N)
    <3>1. \A n \in Live(N) \ DOMAIN T : Append(<<>>, N) = Contents(n, N)
      BY <1>5, <2>1, Zenon
    <3>2. Append(<<>>, N) = <<N>>
      BY <1>1
    <3> QED
      BY <3>1, <3>2, Zenon
  <2>3. \A n \in DOMAIN T : Append(T[n], N) = Contents(n, N)
    BY <1>5, <1>6, Zenon
  <2> QED
    BY <1>6, <2>2, <2>3, Zenon DEF Commits!Run
<1>8. Commits!After(S, v) = [version |-> N, stores |-> Commits!Run(T, N)]
  BY <1>2, Zenon DEF Commits!After, T
<1> QED
  BY <1>7, <1>8

\* With a commit, or a rollback, the versions a reader finds are those of the step
\* of AtomicCommits.
LEMMA IdealStep ==
  ASSUME Orderly, NEW x \in Nat, NEW y \in Nat, x = 0 \/ x >= FirstVersion, y >= FirstVersion,
         Target = x, Committed = Ideal(x), Target' = y, Committed' = Ideal(y)
  PROVE  (y = BlockAfter(x) => Commits!Commit) /\ (y < x => Commits!RollbackToVersion(y))
<1>1. ASSUME y = BlockAfter(x)
      PROVE  Commits!Commit
  <2> DEFINE a == Commits!After(Committed[Target], Target)
  <2>1. a.version = y /\ a.stores = [n \in Live(y) |-> Contents(n, y)]
    BY <1>1, IdealCommit, Zenon
  <2>2. {0} \cup (FirstVersion .. y) = ({0} \cup (FirstVersion .. x)) \cup {y}
    BY <1>1, Numbers DEF BlockAfter
  <2>3. y # 0 /\ y \notin {0} \cup (FirstVersion .. x)
    BY <1>1, Numbers DEF BlockAfter
  <2> HIDE DEF a
  <2>4. Committed' = [v \in DOMAIN Committed \cup {a.version} |-> IF v = a.version THEN a.stores ELSE Committed[v]]
    BY <2>1, <2>2, <2>3, Zenon DEF Ideal
  <2> QED
    BY <2>1, <2>4, Zenon DEF Commits!Commit, a
<1>2. ASSUME y < x
      PROVE  Commits!RollbackToVersion(y)
  <2>1. y \in {0} \cup (FirstVersion .. x) /\ y # 0
    BY <1>2, Numbers
  <2>2. {w \in {0} \cup (FirstVersion .. x) : w <= y} = {0} \cup (FirstVersion .. y)
    BY <1>2, Numbers
  <2>3. Committed' = [v \in {w \in DOMAIN Committed : w <= y} |-> Committed[v]]
    BY <2>2, Zenon DEF Ideal
  <2>4. y \in DOMAIN Committed \ {0}
    BY <2>1, Zenon DEF Ideal
  <2> QED
    BY <1>2, <2>3, <2>4, Zenon DEF Commits!RollbackToVersion
<1> QED
  BY <1>1, <1>2, Zenon

\* Which step changes what a reader finds: the flush of a commit and, in a
\* rollback, the first cut of a tree or, if there is no store, the flush.
LEMMA TargetStep ==
  ASSUME RootInv, Orderly, [Next]_vars
  PROVE  \/ Target' = Target
         \/ Target = latestVersion /\ Target' = Coming
         \/ step = "rollback" /\ Target = latestVersion /\ Target' = target
<1>1. CASE FlushMetadata
  <2>1. step = "flush" /\ step' = "idle" /\ latestVersion' = lastCommitInfo.version
    BY <1>1, Zenon DEF FlushMetadata
  <2>2. lastCommitInfo.version = Coming
    BY <2>1 DEF RootInv, MountedInv
  <2> QED
    BY <2>1, <2>2, Zenon DEF Target
<1>2. CASE FlushRollback
  BY <1>2, Zenon DEF FlushRollback, Stop, Target
<1>3. CASE \E n \in DOMAIN stores : OverwriteStore(n)
  <2>1. PICK n \in DOMAIN stores : OverwriteStore(n)
    BY <1>3, Zenon
  <2>2. step = "rollback" /\ target \in DOMAIN trees[n]
    BY <2>1, RollbackTarget, Zenon DEF OverwriteStore
  <2>3. /\ left' = left \ {n} /\ step' = step /\ target' = target
        /\ stores' = [stores EXCEPT ![n].version = target, ![n].contents = trees[n][target]]
    BY <2>1, <2>2, Zenon DEF OverwriteStore
  <2>4. DOMAIN stores' = DOMAIN stores /\ left' # DOMAIN stores'
    BY <2>3, Zenon
  <2> QED
    BY <2>2, <2>3, <2>4, Zenon DEF Target
<1>4. CASE \E v \in MinTarget .. MaxVersion : BeginRollback(v)
  BY <1>4, Zenon DEF BeginRollback, Target, disk
<1>5. CASE \E n \in DOMAIN stores : CommitStore(n)
  BY <1>5, Zenon DEF CommitStore, Target
<1>6. CASE LoadLatestVersion \/ SetInitialVersion \/ RunBlock \/ DynamicAddNamesapceStore
           \/ Halt \/ BeginCommit \/ SetLastCommitInfo \/ Crash
  <2>1. step # "rollback" /\ step' # "rollback" /\ latestVersion' = latestVersion
    BY <1>6, Zenon DEF LoadLatestVersion, LoadVersion, SetInitialVersion, RunBlock, DynamicAddNamesapceStore, Halt, BeginCommit,
                SetLastCommitInfo, Crash, Stop, disk, Orderly
  <2> QED
    BY <2>1, Zenon DEF Target
<1>7. CASE UNCHANGED vars
  BY <1>7, Zenon DEF vars, disk, process, Target
<1> QED
  BY <1>1, <1>2, <1>3, <1>4, <1>5, <1>6, <1>7, Zenon DEF Next

\* However many times the process stops in a block or a commit, the metadata shows
\* versions that are only added, each whole, by running the next block on the last
\* one, or cut by a rollback.
THEOREM RootImplementsAtomicCommits == Orderly => (Spec => ImplementsAtomicCommits)
<1> SUFFICES ASSUME Orderly
             PROVE  Spec => ImplementsAtomicCommits
  BY Zenon
<1> DEFINE Shown == Committed = Ideal(Target) /\ Target \in Nat
<1>1. Init => Commits!Init
  <2> SUFFICES ASSUME Init
               PROVE  Commits!Init
    BY Zenon
  <2>1. Target = 0
    BY Zenon DEF Init, Target
  <2>2. Committed = Ideal(0)
    BY <2>1, InitiallyRootInv, CommittedIsIdeal, Zenon
  <2>3. {0} \cup (FirstVersion .. 0) = {0}
    BY Numbers
  <2> QED
    BY <2>1, <2>2, <2>3, Zenon DEF Commits!Init, Ideal
<1>2. RootInv => Shown
  BY CommittedIsIdeal, Zenon
<1>3. RootInv /\ Shown /\ Shown' /\ [Next]_vars => [Commits!Next]_(Commits!acVars)
  <2> SUFFICES ASSUME RootInv, Shown, Shown', [Next]_vars
               PROVE  [Commits!Next]_(Commits!acVars)
    BY Zenon
  <2>1. Committed = Ideal(Target) /\ Target \in Nat
    BY Zenon
  <2>2. Committed' = Ideal(Target') /\ Target' \in Nat
    BY Zenon DEF Ideal
  <2>3. CASE Target' = Target
    BY <2>1, <2>2, <2>3, Zenon DEF Commits!acVars
  <2>4. CASE Target = latestVersion /\ Target' = Coming
    <3>1. (Target = 0 \/ Target >= FirstVersion) /\ Target' >= FirstVersion /\ Target' = BlockAfter(Target)
      BY <2>4, ComingBlock, Zenon DEF RootInv, Coming
    <3>2. Commits!Commit
      BY <2>1, <2>2, <3>1, IdealStep, Zenon
    <3> QED
      BY <3>2, Zenon DEF Commits!Next
  <2>5. CASE step = "rollback" /\ Target = latestVersion /\ Target' = target
    <3>1. (Target = 0 \/ Target >= FirstVersion) /\ Target' >= FirstVersion /\ Target' < Target
      BY <2>5, RollbackTarget, ComingBlock, Zenon DEF RootInv
    <3>2. Commits!RollbackToVersion(Target')
      BY <2>1, <2>2, <3>1, IdealStep, Zenon
    <3>3. Target' \in DOMAIN Committed
      BY <2>1, <2>2, <3>1, Numbers DEF Ideal
    <3> QED
      BY <3>2, <3>3, Zenon DEF Commits!Next
  <2> QED
    BY <2>3, <2>4, <2>5, TargetStep, Zenon
<1> HIDE DEF Shown
<1> QED
  BY <1>1, <1>2, <1>3, RootInvariant, PTL DEF Spec, ImplementsAtomicCommits, Commits!Spec
==============================================================================
