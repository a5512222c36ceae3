------------------------ MODULE SnapshotRestoreProofs ------------------------
(***************************************************************************)
(* Proofs about SnapshotRestore, for any heights, any number of chunks,    *)
(* extensions and restores, channels of any capacity, any faults and any   *)
(* number of crashes: the manager, the stream of chunks, and the theorems. *)
(***************************************************************************)
EXTENDS SnapshotRestore, SequenceTheorems, TLAPS

------------------------------------------------------------------------------
(* Sequences of chunks *)

\* A sequence of chunks that counts from 1 is a part of the snapshot, from its
\* first chunk on, and the whole of it when it is as long.
LEMMA CountedIsPrefix ==
  ASSUME NEW seq \in Seq(Index), Counts(seq, 0)
  PROVE  /\ Len(seq) <= Chunks
         /\ seq = SubSeq(AllChunks, 1, Len(seq))
         /\ Len(seq) = Chunks => seq = AllChunks
<1>1. Len(seq) \in Nat /\ DOMAIN seq = 1 .. Len(seq) /\ seq \in [1 .. Len(seq) -> Index]
  OBVIOUS
<1>a. \A i \in 1 .. Len(seq) : seq[i] = i
  BY <1>1 DEF Counts
<1>2. Len(seq) <= Chunks
  <2>1. CASE Len(seq) = 0
    BY <2>1, RestoreAssumption
  <2>2. CASE Len(seq) # 0
    <3>1. seq[Len(seq)] = Len(seq) /\ seq[Len(seq)] \in Index
      BY <1>1, <1>a, <2>2
    <3> QED
      BY <3>1, RestoreAssumption DEF Index
  <2> QED
    BY <2>1, <2>2, Zenon
<1>3. AllChunks \in Seq(Index) /\ Len(AllChunks) = Chunks
  BY RestoreAssumption DEF AllChunks, Index
<1>4. seq = SubSeq(AllChunks, 1, Len(seq))
  <2>1. SubSeq(AllChunks, 1, Len(seq)) = [i \in 1 .. Len(seq) |-> AllChunks[i]]
    BY <1>1, <1>2, <1>3, RestoreAssumption
  <2>2. \A i \in 1 .. Len(seq) : AllChunks[i] = seq[i]
    BY <1>1, <1>2, <1>a, RestoreAssumption DEF AllChunks, Index
  <2> QED
    BY <1>1, <2>1, <2>2, Zenon
<1>5. Len(seq) = Chunks => seq = AllChunks
  BY <1>1, <1>a, Zenon DEF AllChunks, Index
<1> QED
  BY <1>2, <1>4, <1>5, Zenon

\* The next chunk appended to chunks in order leaves them in order.
LEMMA Appended ==
  ASSUME NEW seq \in Seq(Index), NEW x \in Index
  PROVE  /\ Append(seq, x) \in Seq(Index)
         /\ Size(seq) \in Nat
         /\ Size(Append(seq, x)) = Size(seq) + 1
         /\ \A b \in Nat : Counts(seq, b) /\ x = b + Size(seq) + 1 => Counts(Append(seq, x), b)
<1>1. /\ Append(seq, x) \in Seq(Index)
      /\ Len(Append(seq, x)) = Len(seq) + 1
      /\ \A i \in 1 .. Len(seq) : Append(seq, x)[i] = seq[i]
      /\ Append(seq, x)[Len(seq) + 1] = x
  BY AppendProperties
<1>2. Len(seq) \in Nat
  OBVIOUS
<1>3. ASSUME NEW b \in Nat, Counts(seq, b), x = b + Len(seq) + 1,
             NEW i \in 1 .. Len(Append(seq, x))
      PROVE  Append(seq, x)[i] = b + i
  <2>1. i \in 1 .. Len(seq) \/ i = Len(seq) + 1
    BY <1>1, <1>2
  <2> QED
    BY <1>1, <1>2, <1>3, <2>1 DEF Counts
<1> QED
  BY <1>1, <1>2, <1>3, Zenon DEF Counts, Size

\* The first of chunks in order is the next one, and the others stay in order.
LEMMA HeadTaken ==
  ASSUME NEW seq \in Seq(Index), seq # <<>>
  PROVE  /\ Tail(seq) \in Seq(Index)
         /\ Head(seq) \in Index
         /\ Size(seq) \in Nat \ {0}
         /\ Size(Tail(seq)) = Size(seq) - 1
         /\ \A b \in Nat : Counts(seq, b) => Head(seq) = b + 1 /\ Counts(Tail(seq), b + 1)
<1>1. /\ Tail(seq) \in Seq(Index)
      /\ Head(seq) \in Index
      /\ Len(Tail(seq)) = Len(seq) - 1
      /\ \A i \in 1 .. Len(Tail(seq)) : Tail(seq)[i] = seq[i + 1]
  BY HeadTailProperties, Zenon
<1>2. Len(seq) \in Nat \ {0}
  BY EmptySeq, Zenon
<1>3. Head(seq) = seq[1]
  OBVIOUS
<1>4. ASSUME NEW b \in Nat, Counts(seq, b)
      PROVE  Head(seq) = b + 1 /\ Counts(Tail(seq), b + 1)
  <2>1. Head(seq) = b + 1
    BY <1>2, <1>3, <1>4 DEF Counts
  <2>2. ASSUME NEW i \in 1 .. Len(Tail(seq)) PROVE Tail(seq)[i] = (b + 1) + i
    <3>1. i \in Nat /\ i + 1 \in 1 .. Len(seq)
      BY <1>1, <1>2
    <3>2. Tail(seq)[i] = b + (i + 1)
      BY <1>1, <1>4, <3>1, Zenon DEF Counts
    <3> QED
      BY <3>1, <3>2
  <2> QED
    BY <2>1, <2>2, Zenon DEF Counts
<1> QED
  BY <1>1, <1>2, <1>4, Zenon DEF Size

------------------------------------------------------------------------------
(* Types *)

\* A step keeps the types of the manager's own state.
LEMMA ManagerTypes ==
  ASSUME RestoreInv, [Next]_vars
  PROVE  ManagerTypeOK'
<1> USE DEF managerVars, channelVars, loaderVars, restorerVars, storeVars,
            environment, otherVars
<1>a. ManagerTypeOK /\ StoreTypeOK /\ ChannelTypeOK /\ GoroutineTypeOK /\ ManagerInv
  BY Zenon DEF RestoreInv, TypeOK
<1>1. ASSUME NEW h \in Heights, Restore(h)
     PROVE  ManagerTypeOK'
  BY <1>a, <1>1, RestoreAssumption DEF Restore, Unlocked, ManagerTypeOK, Session
<1>2. ASSUME NEW h \in Heights, LoadLocal(h)
     PROVE  ManagerTypeOK'
  BY <1>a, <1>2, RestoreAssumption DEF LoadLocal, ManagerTypeOK, StoreTypeOK
<1>3. ASSUME NEW h \in Heights, BeginCreate(h)
     PROVE  ManagerTypeOK'
  BY <1>a, <1>3, Zenon DEF BeginCreate, ManagerTypeOK
<1>4. CASE RestoreFails
  BY <1>a, <1>4, Zenon DEF RestoreFails, ManagerTypeOK
<1>5. CASE RestoreEnded
  BY <1>a, <1>5, RestoreAssumption DEF RestoreEnded, EndLocked, ManagerTypeOK
<1>6. CASE RestoreChunk
  BY <1>a, <1>6, RestoreAssumption, Zenon
    DEF RestoreChunk, Wanted, ManagerTypeOK, ManagerInv, Session, NoSession
<1>7. CASE PassChunk
  BY <1>a, <1>7, RestoreAssumption
    DEF PassChunk, ManagerTypeOK, ManagerInv, Session, NoSession
<1>8. CASE PassLastChunk
  BY <1>a, <1>8, RestoreAssumption
    DEF PassLastChunk, ManagerTypeOK, ManagerInv, Session, NoSession
<1>9. CASE RestoreReturns
  BY <1>a, <1>9, RestoreAssumption
    DEF RestoreReturns, EndLocked, ManagerTypeOK, ManagerInv, Session, NoSession
<1>10. CASE BeginLocalFails
  BY <1>a, <1>10, RestoreAssumption
    DEF BeginLocalFails, NoLocal, ManagerTypeOK, StoreTypeOK
<1>11. CASE BeginLocal
  BY <1>a, <1>11, Zenon DEF BeginLocal, ManagerTypeOK
<1>12. CASE ReadLocalChunk
  <2>1. /\ local.read \in 0 .. Chunks /\ local.read < Chunks
        /\ local' = [local EXCEPT !.read = local.read + 1]
    BY <1>a, <1>12, Zenon DEF ManagerTypeOK, ReadLocalChunk
  <2>2. local.read + 1 \in 0 .. Chunks
    BY <2>1, RestoreAssumption
  <2>3. local' \in [height : Heights \cup {0}, stage : {"none", "loaded", "restoring"}, read : 0 .. Chunks]
    BY <1>a, <2>1, <2>2, Zenon DEF ManagerTypeOK
  <2> QED
    BY <1>a, <1>12, <2>3, Zenon DEF ManagerTypeOK, ReadLocalChunk
<1>13. CASE EndLocal
  BY <1>a, <1>13, RestoreAssumption DEF EndLocal, EndLocked, NoLocal, ManagerTypeOK
<1>14. CASE EndCreate
  BY <1>a, <1>14, RestoreAssumption DEF EndCreate, EndLocked, NoCreate, ManagerTypeOK
<1>15. CASE BeginPrune
  BY <1>a, <1>15, Zenon DEF BeginPrune, ManagerTypeOK
<1>16. CASE EndPrune
  BY <1>a, <1>16, RestoreAssumption DEF EndPrune, EndLocked, ManagerTypeOK
<1>17. CASE Crash
  BY <1>a, <1>17, RestoreAssumption DEF Crash, Each, NoLocal, NoCreate, ManagerTypeOK
<1>18. CASE UNCHANGED <<operation, session, chunkIndex, call, sessions, completed, local>>
  BY <1>a, <1>18, Zenon DEF ManagerTypeOK
<1> QED
  BY <1>1, <1>2, <1>3, <1>4, <1>5, <1>6, <1>7, <1>8, <1>9, <1>10, <1>11, <1>12, <1>13,
       <1>14, <1>15, <1>16, <1>17, <1>18, Zenon
    DEF Next, Restoring, Loader, Restorer, Local, Taking, Pruning, vars, HashMismatch,
        SaveChunkContentFails, LoadChunk, SendChunk, EndLoader, OpenFails, ApplyChunk,
        ApplyFails, RestoreExtension, ExtensionFails, ExtensionNotExhausted,
        EndOfStream, DrainChunk, EndRestorer, SaveChunk, DeleteRecord, RemoveFiles,
        Close, Return, TakeChunk

\* A step keeps the types of the snapshot store, and of Create and Prune.
LEMMA StoreTypes ==
  ASSUME RestoreInv, [Next]_vars
  PROVE  StoreTypeOK'
<1> USE DEF managerVars, channelVars, loaderVars, restorerVars, storeVars,
            environment, otherVars
<1>a. ManagerTypeOK /\ StoreTypeOK /\ ChannelTypeOK /\ GoroutineTypeOK /\ ManagerInv
  BY Zenon DEF RestoreInv, TypeOK
<1>1. ASSUME NEW h \in Heights, BeginCreate(h)
     PROVE  StoreTypeOK'
  <2>1. creating' \in [height : Heights \cup {0}, saved : 0 .. Chunks]
    <3>1. 0 \in 0 .. Chunks
      BY RestoreAssumption
    <3>2. creating' = [height |-> h, saved |-> 0]
      BY <1>1, Zenon DEF BeginCreate
    <3> QED
      BY <3>1, <3>2
  <2> QED
    BY <1>a, <1>1, <2>1, Zenon DEF BeginCreate, StoreTypeOK
<1>2. CASE SaveChunkContentFails
  <2>1. height[session] \in Heights /\ chunkIndex + 1 \in Index
    BY <1>a, <1>2, RestoreAssumption DEF ManagerInv, ManagerTypeOK, SaveChunkContentFails, Wanted, Index
  <2> QED
    BY <1>a, <1>2, <2>1, Zenon DEF StoreTypeOK, SaveChunkContentFails
<1>3. CASE RestoreChunk
  <2>1. height[session] \in Heights /\ chunkIndex + 1 \in Index
    BY <1>a, <1>3, RestoreAssumption DEF ManagerInv, ManagerTypeOK, RestoreChunk, Wanted, Index
  <2> QED
    BY <1>a, <1>3, <2>1, Zenon DEF StoreTypeOK, RestoreChunk
<1>4. CASE PassLastChunk
  BY <1>a, <1>4, Zenon DEF PassLastChunk, StoreTypeOK, ManagerInv
<1>5. CASE SaveChunk
  <2>1. /\ creating.saved \in 0 .. Chunks /\ creating.saved < Chunks
        /\ creating.height \in Heights
        /\ creating' = [creating EXCEPT !.saved = creating.saved + 1]
    BY <1>a, <1>5, Zenon DEF StoreTypeOK, ManagerInv, SaveChunk
  <2>2. creating.saved + 1 \in 0 .. Chunks /\ creating.saved + 1 \in Index
    BY <2>1, RestoreAssumption DEF Index
  <2>3. creating' \in [height : Heights \cup {0}, saved : 0 .. Chunks]
    BY <1>a, <2>1, <2>2, Zenon DEF StoreTypeOK
  <2>4. files' \in [Heights -> [Index -> {"none", "torn", "whole"}]]
    BY <1>a, <1>5, <2>1, <2>2, Zenon DEF StoreTypeOK, SaveChunk
  <2> QED
    BY <1>a, <1>5, <2>3, <2>4, Zenon DEF StoreTypeOK, SaveChunk
<1>6. CASE EndCreate
  <2>1. /\ creating.saved \in 0 .. Chunks
        /\ creating.height \in Heights
    BY <1>a, <1>6, Zenon DEF StoreTypeOK, ManagerInv, EndCreate
  <2>2. creating.saved < Chunks => creating.saved + 1 \in Index
    BY <2>1, RestoreAssumption DEF Index
  <2>3. files' \in [Heights -> [Index -> {"none", "torn", "whole"}]]
    BY <1>a, <1>6, <2>1, <2>2 DEF StoreTypeOK, EndCreate
  <2>4. creating' \in [height : Heights \cup {0}, saved : 0 .. Chunks]
    BY <1>6, RestoreAssumption DEF EndCreate, NoCreate
  <2> QED
    BY <1>a, <1>6, <2>1, <2>3, <2>4, Zenon DEF StoreTypeOK, EndCreate
<1>7. ASSUME NEW h \in Heights, DeleteRecord(h)
     PROVE  StoreTypeOK'
  BY <1>a, <1>7, Zenon DEF DeleteRecord, StoreTypeOK
<1>8. CASE RemoveFiles
  BY <1>a, <1>8, Zenon DEF RemoveFiles, NoFiles, StoreTypeOK
<1>9. CASE EndPrune
  BY <1>a, <1>9, Zenon DEF EndPrune, EndLocked, StoreTypeOK
<1>10. CASE Crash
  BY <1>a, <1>10, RestoreAssumption DEF Crash, Each, NoLocal, NoCreate, StoreTypeOK
<1>11. CASE UNCHANGED <<creating, pruning, saving, files, records, crashes, faults>>
  BY <1>a, <1>11, Zenon DEF StoreTypeOK
<1> QED
  BY <1>1, <1>2, <1>3, <1>4, <1>5, <1>6, <1>7, <1>8, <1>9, <1>10, <1>11, Zenon
    DEF Next, Restoring, Loader, Restorer, Local, Taking, Pruning, vars, Restore,
        LoadLocal, RestoreFails, RestoreEnded, HashMismatch, PassChunk, RestoreReturns,
        LoadChunk, SendChunk, EndLoader, OpenFails, ApplyChunk, ApplyFails,
        RestoreExtension, ExtensionFails, ExtensionNotExhausted, EndOfStream,
        DrainChunk, EndRestorer, BeginLocalFails, BeginLocal, ReadLocalChunk, EndLocal,
        BeginPrune, Close, EndLocked, Return, TakeChunk

\* A chunk that the restorer takes leaves room in its channel.
LEMMA ChunkTaken ==
  ASSUME ChannelTypeOK, NEW s \in Session, TakeChunk(s)
  PROVE  /\ chunks' \in [Session -> Seq(Index)]
         /\ \A t \in Session : Size(chunks'[t]) <= ChunkBuffer
<1>1. /\ Tail(chunks[s]) \in Seq(Index)
      /\ Size(Tail(chunks[s])) = Size(chunks[s]) - 1 /\ Size(chunks[s]) \in Nat
  BY HeadTaken, Zenon DEF ChannelTypeOK, TakeChunk
<1>2. Size(chunks[s]) <= ChunkBuffer
  BY Zenon DEF ChannelTypeOK
<1>3. Size(Tail(chunks[s])) <= ChunkBuffer
  BY <1>1, <1>2, RestoreAssumption
<1>4. /\ chunks' \in [Session -> Seq(Index)]
      /\ \A t \in Session : t # s => chunks'[t] = chunks[t]
      /\ chunks'[s] = Tail(chunks[s])
  BY <1>1, Zenon DEF ChannelTypeOK, TakeChunk
<1> QED
  BY <1>3, <1>4, Zenon DEF ChannelTypeOK

\* A step keeps the types of the channels, and their capacities.
LEMMA ChannelTypes ==
  ASSUME RestoreInv, [Next]_vars
  PROVE  ChannelTypeOK'
<1> USE DEF managerVars, channelVars, loaderVars, restorerVars, storeVars,
            environment, otherVars
<1>a. /\ ManagerTypeOK /\ StoreTypeOK /\ ChannelTypeOK /\ GoroutineTypeOK
      /\ ManagerInv /\ ResultInv
  BY Zenon DEF RestoreInv, TypeOK
<1>1. ASSUME NEW h \in Heights, Restore(h)
     PROVE  ChannelTypeOK'
  BY <1>a, <1>1, RestoreAssumption, Zenon
    DEF Restore, Unlocked, ChannelTypeOK, ManagerTypeOK, Session
<1>2. CASE RestoreEnded
  BY <1>a, <1>2, Zenon DEF RestoreEnded, EndLocked, ChannelTypeOK, ManagerTypeOK, NoSession
<1>3. CASE PassChunk
  <2>1. session \in Session /\ chunkIndex + 1 \in Index /\ Size(ids[session]) < ChunkIDBuffer
    BY <1>a, <1>3, RestoreAssumption
      DEF ManagerInv, ManagerTypeOK, PassChunk, Index, NoSession, Size
  <2>2. /\ Append(ids[session], chunkIndex + 1) \in Seq(Index)
        /\ Size(Append(ids[session], chunkIndex + 1)) <= ChunkIDBuffer
    <3>1. /\ Append(ids[session], chunkIndex + 1) \in Seq(Index)
          /\ Size(Append(ids[session], chunkIndex + 1)) = Size(ids[session]) + 1
          /\ Size(ids[session]) \in Nat
      BY <1>a, <2>1, Appended, Zenon DEF ChannelTypeOK
    <3> QED
      BY <2>1, <3>1, RestoreAssumption
  <2>3. /\ ids' \in [Session -> Seq(Index)]
        /\ \A t \in Session : t # session => ids'[t] = ids[t]
        /\ ids'[session] = Append(ids[session], chunkIndex + 1)
    BY <1>a, <1>3, <2>1, <2>2, Zenon DEF ChannelTypeOK, PassChunk
  <2>4. \A t \in Session : Size(ids'[t]) <= ChunkIDBuffer
    BY <1>a, <2>2, <2>3, Zenon DEF ChannelTypeOK
  <2> QED
    BY <1>a, <1>3, <2>3, <2>4, Zenon DEF ChannelTypeOK, PassChunk
<1>4. CASE PassLastChunk
  <2>1. session \in Session /\ Chunks \in Index /\ Size(ids[session]) < ChunkIDBuffer
    BY <1>a, <1>4, RestoreAssumption
      DEF ManagerInv, ManagerTypeOK, PassLastChunk, Index, NoSession, Size
  <2>2. /\ Append(ids[session], Chunks) \in Seq(Index)
        /\ Size(Append(ids[session], Chunks)) <= ChunkIDBuffer
    <3>1. /\ Append(ids[session], Chunks) \in Seq(Index)
          /\ Size(Append(ids[session], Chunks)) = Size(ids[session]) + 1
          /\ Size(ids[session]) \in Nat
      BY <1>a, <2>1, Appended, Zenon DEF ChannelTypeOK
    <3> QED
      BY <2>1, <3>1, RestoreAssumption
  <2>3. /\ ids' \in [Session -> Seq(Index)]
        /\ \A t \in Session : t # session => ids'[t] = ids[t]
        /\ ids'[session] = Append(ids[session], Chunks)
    BY <1>a, <1>4, <2>1, <2>2, Zenon DEF ChannelTypeOK, PassLastChunk
  <2>4. \A t \in Session : Size(ids'[t]) <= ChunkIDBuffer
    BY <1>a, <2>2, <2>3, Zenon DEF ChannelTypeOK
  <2>5. idsClosed' \in [Session -> BOOLEAN]
    BY <1>a, <1>4, Zenon DEF ChannelTypeOK, PassLastChunk
  <2> QED
    BY <1>a, <1>4, <2>3, <2>4, <2>5, Zenon DEF ChannelTypeOK, PassLastChunk
<1>5. CASE RestoreReturns
  BY <1>a, <1>5, Zenon DEF RestoreReturns, EndLocked, ChannelTypeOK, ManagerTypeOK, NoSession
<1>6. ASSUME NEW s \in Session, LoadChunk(s)
     PROVE  ChannelTypeOK'
  <2>1. /\ Tail(ids[s]) \in Seq(Index)
        /\ Size(Tail(ids[s])) = Size(ids[s]) - 1 /\ Size(ids[s]) \in Nat
    BY <1>a, <1>6, HeadTaken, Zenon DEF ChannelTypeOK, LoadChunk
  <2>2. Size(ids[s]) <= ChunkIDBuffer
    BY <1>a, Zenon DEF ChannelTypeOK
  <2>3. Size(Tail(ids[s])) <= ChunkIDBuffer
    BY <2>1, <2>2, RestoreAssumption
  <2>4. /\ ids' \in [Session -> Seq(Index)]
        /\ \A t \in Session : t # s => ids'[t] = ids[t]
        /\ ids'[s] = Tail(ids[s])
    BY <1>a, <1>6, <2>1, Zenon DEF ChannelTypeOK, LoadChunk
  <2>5. \A t \in Session : Size(ids'[t]) <= ChunkIDBuffer
    BY <1>a, <2>3, <2>4, Zenon DEF ChannelTypeOK
  <2> QED
    BY <1>a, <1>6, <2>4, <2>5, Zenon DEF ChannelTypeOK, LoadChunk
<1>7. ASSUME NEW s \in Session, SendChunk(s)
     PROVE  ChannelTypeOK'
  <2>1. held[s] \in Index /\ Size(chunks[s]) < ChunkBuffer
    BY <1>a, <1>7, RestoreAssumption DEF GoroutineTypeOK, SendChunk, Index, Size
  <2>2. /\ Append(chunks[s], held[s]) \in Seq(Index)
        /\ Size(Append(chunks[s], held[s])) <= ChunkBuffer
    <3>1. /\ Append(chunks[s], held[s]) \in Seq(Index)
          /\ Size(Append(chunks[s], held[s])) = Size(chunks[s]) + 1
          /\ Size(chunks[s]) \in Nat
      BY <1>a, <2>1, Appended, Zenon DEF ChannelTypeOK
    <3> QED
      BY <2>1, <3>1, RestoreAssumption
  <2>3. /\ chunks' \in [Session -> Seq(Index)]
        /\ \A t \in Session : t # s => chunks'[t] = chunks[t]
        /\ chunks'[s] = Append(chunks[s], held[s])
    BY <1>a, <1>7, <2>2, Zenon DEF ChannelTypeOK, SendChunk
  <2>4. \A t \in Session : Size(chunks'[t]) <= ChunkBuffer
    BY <1>a, <2>2, <2>3, Zenon DEF ChannelTypeOK
  <2> QED
    BY <1>a, <1>7, <2>3, <2>4, Zenon DEF ChannelTypeOK, SendChunk
<1>8. ASSUME NEW s \in Session, OpenFails(s)
     PROVE  ChannelTypeOK'
  BY <1>a, <1>8, ChunkTaken, Zenon DEF ChannelTypeOK, OpenFails, Return
<1>9. ASSUME NEW s \in Session, ApplyChunk(s)
     PROVE  ChannelTypeOK'
  BY <1>a, <1>9, ChunkTaken, Zenon DEF ChannelTypeOK, ApplyChunk
<1>10. ASSUME NEW s \in Session, DrainChunk(s)
     PROVE  ChannelTypeOK'
  BY <1>a, <1>10, ChunkTaken, Zenon DEF ChannelTypeOK, DrainChunk
<1>11. ASSUME NEW s \in Session, EndRestorer(s)
     PROVE  ChannelTypeOK'
  <2>1. outcome[s] \in {"ok", "err"}
    BY <1>a, <1>11, Zenon DEF GoroutineTypeOK, ResultInv, EndRestorer
  <2> QED
    BY <1>a, <1>11, <2>1, Zenon DEF ChannelTypeOK, EndRestorer, Return
<1>12. CASE EndLocal
  BY <1>a, <1>12, Zenon DEF EndLocal, EndLocked, NoLocal, ChannelTypeOK, ManagerTypeOK, NoSession
<1>13. CASE EndCreate
  BY <1>a, <1>13, Zenon
    DEF EndCreate, EndLocked, NoCreate, ChannelTypeOK, ManagerTypeOK, NoSession
<1>14. CASE EndPrune
  BY <1>a, <1>14, Zenon DEF EndPrune, EndLocked, ChannelTypeOK, ManagerTypeOK, NoSession
<1>15. CASE Crash
  <2>1. <<>> \in Seq(Index) /\ Len(<<>>) = 0
    BY EmptySeq, Zenon
  <2> QED
    BY <2>1, <1>15, RestoreAssumption DEF ChannelTypeOK, Size, Crash, Each
<1>16. CASE UNCHANGED <<height, ids, chunks, idsClosed, done>>
  BY <1>a, <1>16, Zenon DEF ChannelTypeOK
<1> QED
  BY <1>1, <1>2, <1>3, <1>4, <1>5, <1>6, <1>7, <1>8, <1>9, <1>10, <1>11, <1>12, <1>13,
       <1>14, <1>15, <1>16, Zenon
    DEF Next, Restoring, Loader, Restorer, Local, Taking, Pruning, vars, LoadLocal,
        BeginCreate, RestoreFails, HashMismatch, SaveChunkContentFails, RestoreChunk,
        EndLoader, ApplyFails, RestoreExtension, ExtensionFails, ExtensionNotExhausted,
        EndOfStream, BeginLocalFails, BeginLocal, ReadLocalChunk, SaveChunk, BeginPrune,
        DeleteRecord, RemoveFiles, Close

\* A step keeps the types of the loaders and restorers.
LEMMA GoroutineTypes ==
  ASSUME RestoreInv, [Next]_vars
  PROVE  GoroutineTypeOK'
<1> USE DEF managerVars, channelVars, loaderVars, restorerVars, storeVars,
            environment, otherVars
<1>a. ManagerTypeOK /\ StoreTypeOK /\ ChannelTypeOK /\ GoroutineTypeOK /\ ManagerInv
  BY Zenon DEF RestoreInv, TypeOK
<1>1. ASSUME NEW h \in Heights, Restore(h)
     PROVE  GoroutineTypeOK'
  BY <1>a, <1>1, Zenon DEF Restore, Unlocked, GoroutineTypeOK
<1>2. ASSUME NEW s \in Session, LoadChunk(s)
     PROVE  GoroutineTypeOK'
  <2>1. Head(ids[s]) \in 0 .. Chunks
    BY <1>a, <1>2, HeadTaken, RestoreAssumption DEF ChannelTypeOK, LoadChunk, Index
  <2> QED
    BY <1>a, <1>2, <2>1, Zenon DEF GoroutineTypeOK, LoadChunk
<1>3. ASSUME NEW s \in Session, SendChunk(s)
     PROVE  GoroutineTypeOK'
  BY <1>a, <1>3, RestoreAssumption DEF SendChunk, GoroutineTypeOK
<1>4. ASSUME NEW s \in Session, EndLoader(s)
     PROVE  GoroutineTypeOK'
  BY <1>a, <1>4, Zenon DEF EndLoader, GoroutineTypeOK
<1>5. ASSUME NEW s \in Session, OpenFails(s)
     PROVE  GoroutineTypeOK'
  BY <1>a, <1>5, Zenon DEF OpenFails, Return, TakeChunk, GoroutineTypeOK
<1>6. ASSUME NEW s \in Session, ApplyChunk(s)
     PROVE  GoroutineTypeOK'
  <2>1. Head(chunks[s]) \in Index
    BY <1>a, <1>6, HeadTaken, Zenon DEF ChannelTypeOK, ApplyChunk, TakeChunk
  <2>2. applied' \in [Session -> Seq(Index)]
    BY <1>a, <1>6, <2>1, Appended, Zenon DEF GoroutineTypeOK, ApplyChunk
  <2> QED
    BY <1>a, <1>6, <2>2, Zenon DEF GoroutineTypeOK, ApplyChunk
<1>7. ASSUME NEW s \in Session, ApplyFails(s)
     PROVE  GoroutineTypeOK'
  BY <1>a, <1>7, Zenon DEF ApplyFails, Close, GoroutineTypeOK
<1>8. ASSUME NEW s \in Session, RestoreExtension(s)
     PROVE  GoroutineTypeOK'
  <2>1. extended[s] + 1 \in 0 .. Extensions
    BY <1>a, <1>8, RestoreAssumption DEF GoroutineTypeOK, RestoreExtension
  <2> QED
    BY <1>a, <1>8, <2>1, Zenon DEF GoroutineTypeOK, RestoreExtension
<1>9. ASSUME NEW s \in Session, ExtensionFails(s)
     PROVE  GoroutineTypeOK'
  BY <1>a, <1>9, Zenon DEF ExtensionFails, Close, GoroutineTypeOK
<1>10. ASSUME NEW s \in Session, ExtensionNotExhausted(s)
     PROVE  GoroutineTypeOK'
  BY <1>a, <1>10, Zenon DEF ExtensionNotExhausted, Close, GoroutineTypeOK
<1>11. ASSUME NEW s \in Session, EndOfStream(s)
     PROVE  GoroutineTypeOK'
  BY <1>a, <1>11, Zenon DEF EndOfStream, Close, GoroutineTypeOK
<1>12. ASSUME NEW s \in Session, EndRestorer(s)
     PROVE  GoroutineTypeOK'
  BY <1>a, <1>12, Zenon DEF EndRestorer, Return, GoroutineTypeOK
<1>13. CASE Crash
  <2>1. <<>> \in Seq(Index)
    BY EmptySeq, Zenon
  <2> QED
    BY <2>1, <1>13, RestoreAssumption DEF GoroutineTypeOK, Crash, Each
<1>14. CASE UNCHANGED <<loader, held, restorer, applied, extended, outcome>>
  BY <1>a, <1>14, Zenon DEF GoroutineTypeOK
<1> QED
  BY <1>1, <1>2, <1>3, <1>4, <1>5, <1>6, <1>7, <1>8, <1>9, <1>10, <1>11, <1>12, <1>13,
       <1>14, Zenon
    DEF Next, Restoring, Loader, Restorer, Local, Taking, Pruning, vars, LoadLocal,
        BeginCreate, RestoreFails, RestoreEnded, HashMismatch, SaveChunkContentFails,
        RestoreChunk, PassChunk, PassLastChunk, RestoreReturns, DrainChunk,
        BeginLocalFails, BeginLocal, ReadLocalChunk, EndLocal, SaveChunk, EndCreate,
        BeginPrune, DeleteRecord, RemoveFiles, EndPrune, EndLocked, TakeChunk

------------------------------------------------------------------------------
(* Initial states *)

\* The node starts with no restore, no snapshot and nothing under way.
LEMMA InitiallyRestoreInv == Init => RestoreInv
<1> SUFFICES ASSUME Init PROVE RestoreInv
  BY Zenon
<1>1. <<>> \in Seq(Index) /\ Len(<<>>) = 0
  BY EmptySeq, Zenon
<1>2. ManagerTypeOK
  BY RestoreAssumption DEF Init, ManagerTypeOK, NoLocal
<1>3. StoreTypeOK
  BY RestoreAssumption DEF Init, StoreTypeOK, NoCreate, NoFiles
<1>4. ChannelTypeOK
  BY <1>1, RestoreAssumption DEF Init, ChannelTypeOK, Size, Each
<1>5. GoroutineTypeOK
  BY <1>1, RestoreAssumption DEF Init, GoroutineTypeOK, Each
<1>6. ManagerInv /\ FreshInv
  BY RestoreAssumption DEF Init, ManagerInv, FreshInv, NoLocal, NoCreate, NoSession, Each
<1>7. FlowInv
  BY <1>1 DEF Init, FlowInv, Flow, Counts, Size, Sent, Taken, Each, Session, NoSession
<1>8. ResultInv /\ OneRestorer
  BY Zenon DEF Init, ResultInv, OneRestorer, Each
<1>9. SavedInv /\ RecordsAreWhole
  BY Zenon DEF Init, SavedInv, RecordsAreWhole
<1>10. \A s \in Session : applied[s] = SubSeq(AllChunks, 1, Len(applied[s]))
  BY <1>1, <1>5, <1>7, CountedIsPrefix, Zenon DEF GoroutineTypeOK, FlowInv, Flow
<1> QED
  BY <1>2, <1>3, <1>4, <1>5, <1>6, <1>7, <1>8, <1>9, <1>10, Zenon DEF RestoreInv, TypeOK

------------------------------------------------------------------------------
(* The snapshot store *)

\* A step keeps the chunks that Create and RestoreChunk count as saved.
LEMMA SavedStep ==
  ASSUME RestoreInv, [Next]_vars
  PROVE  SavedInv'
<1> USE DEF managerVars, channelVars, loaderVars, restorerVars, storeVars,
            environment, otherVars
<1>a. SavedInv /\ ManagerInv /\ ManagerTypeOK /\ StoreTypeOK /\ ChannelTypeOK
  BY Zenon DEF RestoreInv, TypeOK
<1>1. ASSUME NEW h \in Heights, Restore(h)
     PROVE  SavedInv'
  <2>1. operation' = "restore" /\ chunkIndex' = 0 /\ call' = "none"
    BY <1>1, Zenon DEF Restore, Unlocked
  <2>2. \A i \in Index : ~(i <= 0)
    BY RestoreAssumption DEF Index
  <2> QED
    BY <2>1, <2>2, Zenon DEF SavedInv
<1>2. ASSUME NEW h \in Heights, BeginCreate(h)
     PROVE  SavedInv'
  BY <1>a, <1>2, RestoreAssumption DEF BeginCreate, SavedInv, ManagerInv, Index
<1>3. CASE RestoreFails
  BY <1>a, <1>3, Zenon DEF RestoreFails, SavedInv
<1>4. CASE RestoreEnded
  BY <1>a, <1>4, Zenon DEF RestoreEnded, EndLocked, SavedInv
<1>5. CASE SaveChunkContentFails
  BY <1>a, <1>5, Zenon DEF SaveChunkContentFails, Wanted, SavedInv
<1>6. CASE RestoreChunk
  <2>1. /\ height[session] \in Heights /\ chunkIndex + 1 \in Index
        /\ operation = "restore" /\ call = "none"
    BY <1>a, <1>6, RestoreAssumption
      DEF ManagerInv, ManagerTypeOK, RestoreChunk, Wanted, Unlocked, Index
  <2>2. \A i \in Index : i <= chunkIndex + 1 => i <= chunkIndex \/ i = chunkIndex + 1
    BY <1>a, RestoreAssumption DEF ManagerTypeOK, Index
  <2>3. \A i \in Index :
          files'[height[session]][i] =
            IF i = chunkIndex + 1 THEN "whole" ELSE files[height[session]][i]
    BY <1>a, <1>6, <2>1, Zenon DEF StoreTypeOK, RestoreChunk
  <2> QED
    BY <1>a, <1>6, <2>1, <2>2, <2>3, Zenon DEF SavedInv, RestoreChunk
<1>7. CASE PassChunk
  BY <1>a, <1>7, Zenon DEF PassChunk, SavedInv
<1>8. CASE PassLastChunk
  <2>1. operation = "restore" /\ chunkIndex' = chunkIndex + 1 /\ call' # "send"
    BY <1>a, <1>8, RestoreAssumption, Zenon DEF ManagerInv, PassLastChunk
  <2> QED
    BY <1>a, <1>8, <2>1, Zenon DEF SavedInv, PassLastChunk
<1>9. CASE RestoreReturns
  BY <1>a, <1>9, Zenon DEF RestoreReturns, EndLocked, SavedInv
<1>10. CASE BeginLocal
  BY <1>a, <1>10, Zenon DEF BeginLocal, SavedInv
<1>11. CASE EndLocal
  BY <1>a, <1>11, Zenon DEF EndLocal, EndLocked, NoLocal, SavedInv
<1>12. CASE SaveChunk
  <2>1. /\ creating.height \in Heights /\ creating.saved + 1 \in Index
        /\ session = NoSession
        /\ creating'.height = creating.height /\ creating'.saved = creating.saved + 1
    BY <1>a, <1>12, RestoreAssumption DEF ManagerInv, StoreTypeOK, SaveChunk, Index
  <2>2. \A i \in Index : i <= creating.saved + 1 => i <= creating.saved \/ i = creating.saved + 1
    BY <1>a, RestoreAssumption DEF StoreTypeOK, Index
  <2>3. \A i \in Index :
          files'[creating.height][i] =
            IF i = creating.saved + 1 THEN "whole" ELSE files[creating.height][i]
    BY <1>a, <1>12, <2>1, Zenon DEF StoreTypeOK, SaveChunk
  <2> QED
    BY <1>a, <1>12, <2>1, <2>2, <2>3 DEF SavedInv, SaveChunk
<1>13. CASE EndCreate
  BY <1>a, <1>13, Zenon DEF EndCreate, EndLocked, NoCreate, SavedInv
<1>14. CASE BeginPrune
  BY <1>a, <1>14, Zenon DEF BeginPrune, SavedInv
<1>15. CASE RemoveFiles
  BY <1>a, <1>15, Zenon DEF RemoveFiles, NoFiles, SavedInv, ManagerInv
<1>16. CASE EndPrune
  BY <1>a, <1>16, Zenon DEF EndPrune, EndLocked, SavedInv
<1>17. CASE Crash
  BY <1>a, <1>17, Zenon DEF Crash, Each, NoLocal, NoCreate, SavedInv
<1>18. CASE UNCHANGED <<operation, creating, files, session, call, chunkIndex, height, faults>>
  BY <1>a, <1>18, Zenon DEF SavedInv
<1> QED
  BY <1>1, <1>2, <1>3, <1>4, <1>5, <1>6, <1>7, <1>8, <1>9, <1>10, <1>11, <1>12, <1>13,
       <1>14, <1>15, <1>16, <1>17, <1>18, Zenon
    DEF Next, Restoring, Loader, Restorer, Local, Taking, Pruning, vars, LoadLocal,
        HashMismatch, LoadChunk, SendChunk, EndLoader, OpenFails, ApplyChunk,
        ApplyFails, RestoreExtension, ExtensionFails, ExtensionNotExhausted,
        EndOfStream, DrainChunk, EndRestorer, BeginLocalFails, ReadLocalChunk,
        DeleteRecord, Close, Return, TakeChunk

\* A step keeps the chunks of every snapshot that has a record: one that adds a
\* record has saved them all, and one that removes files has removed the record.
LEMMA RecordsStep ==
  ASSUME RestoreInv, [Next]_vars
  PROVE  RecordsAreWhole'
<1> USE DEF managerVars, channelVars, loaderVars, restorerVars, storeVars,
            environment, otherVars
<1>a. RecordsAreWhole /\ SavedInv /\ ManagerInv /\ ManagerTypeOK /\ StoreTypeOK
  BY Zenon DEF RestoreInv, TypeOK
<1>1. CASE SaveChunkContentFails
  BY <1>a, <1>1, Zenon DEF SaveChunkContentFails, Wanted, RecordsAreWhole
<1>2. CASE RestoreChunk
  <2>1. height[session] \in Heights /\ chunkIndex + 1 \in Index
    BY <1>a, <1>2, RestoreAssumption DEF ManagerInv, ManagerTypeOK, RestoreChunk, Wanted, Index
  <2> QED
    BY <1>a, <1>2, <2>1, Zenon DEF RecordsAreWhole, StoreTypeOK, RestoreChunk
<1>3. CASE PassLastChunk
  <2>1. session # NoSession /\ \A i \in Index : i <= chunkIndex + 1
    BY <1>a, <1>3, RestoreAssumption DEF ManagerInv, PassLastChunk, Index
  <2> QED
    BY <1>a, <1>3, <2>1, Zenon DEF RecordsAreWhole, SavedInv, PassLastChunk
<1>4. CASE SaveChunk
  <2>1. creating.height \in Heights /\ creating.saved + 1 \in Index
    BY <1>a, <1>4, RestoreAssumption DEF ManagerInv, StoreTypeOK, SaveChunk, Index
  <2> QED
    BY <1>a, <1>4, <2>1, Zenon DEF RecordsAreWhole, StoreTypeOK, SaveChunk
<1>5. CASE EndCreate
  BY <1>a, <1>5, RestoreAssumption
    DEF EndCreate, EndLocked, NoCreate, RecordsAreWhole, SavedInv, Index
<1>6. ASSUME NEW h \in Heights, DeleteRecord(h)
     PROVE  RecordsAreWhole'
  BY <1>a, <1>6, Zenon DEF DeleteRecord, RecordsAreWhole
<1>7. CASE RemoveFiles
  BY <1>a, <1>7, Zenon DEF RemoveFiles, NoFiles, RecordsAreWhole, ManagerInv, StoreTypeOK
<1>8. CASE UNCHANGED <<files, records, faults>>
  BY <1>a, <1>8, Zenon DEF RecordsAreWhole
<1> QED
  BY <1>1, <1>2, <1>3, <1>4, <1>5, <1>6, <1>7, <1>8, Zenon
    DEF Next, Restoring, Loader, Restorer, Local, Taking, Pruning, vars, Restore,
        LoadLocal, BeginCreate, RestoreFails, RestoreEnded, HashMismatch, PassChunk,
        RestoreReturns, LoadChunk, SendChunk, EndLoader, OpenFails, ApplyChunk,
        ApplyFails, RestoreExtension, ExtensionFails, ExtensionNotExhausted,
        EndOfStream, DrainChunk, EndRestorer, BeginLocalFails, BeginLocal,
        ReadLocalChunk, EndLocal, BeginPrune, EndPrune, Crash, Close, EndLocked, Return,
        TakeChunk

------------------------------------------------------------------------------
(* The manager *)

\* A step leaves the manager to whoever holds it.
LEMMA ManagerStep ==
  ASSUME RestoreInv, [Next]_vars
  PROVE  ManagerInv'
<1> USE DEF managerVars, channelVars, loaderVars, restorerVars, storeVars,
            environment, otherVars
<1>a. ManagerInv /\ ManagerTypeOK /\ StoreTypeOK /\ ChannelTypeOK
  BY Zenon DEF RestoreInv, TypeOK
<1>1. ASSUME NEW h \in Heights, Restore(h)
     PROVE  ManagerInv'
  BY <1>a, <1>1, RestoreAssumption
    DEF Restore, Unlocked, ManagerInv, ManagerTypeOK, ChannelTypeOK, NoSession, Session
<1>2. ASSUME NEW h \in Heights, LoadLocal(h)
     PROVE  ManagerInv'
  BY <1>a, <1>2, Zenon DEF LoadLocal, ManagerInv
<1>3. ASSUME NEW h \in Heights, BeginCreate(h)
     PROVE  ManagerInv'
  BY <1>a, <1>3, Zenon DEF BeginCreate, ManagerInv, Unlocked
<1>4. CASE RestoreFails
  BY <1>a, <1>4, Zenon DEF RestoreFails, ManagerInv, Unlocked
<1>5. CASE RestoreEnded
  BY <1>a, <1>5, RestoreAssumption
    DEF RestoreEnded, EndLocked, ManagerInv, ManagerTypeOK, NoSession, Wanted, Unlocked
<1>6. CASE RestoreChunk
  BY <1>a, <1>6, Zenon DEF RestoreChunk, Wanted, ManagerInv, Wanted, Unlocked
<1>7. CASE PassChunk
  BY <1>a, <1>7, Zenon DEF PassChunk, ManagerInv
<1>8. CASE PassLastChunk
  BY <1>a, <1>8, Zenon DEF PassLastChunk, ManagerInv
<1>9. CASE RestoreReturns
  BY <1>a, <1>9, RestoreAssumption
    DEF RestoreReturns, EndLocked, ManagerInv, ManagerTypeOK, NoSession
<1>10. CASE BeginLocalFails
  BY <1>a, <1>10, Zenon DEF BeginLocalFails, NoLocal, ManagerInv, Unlocked
<1>11. CASE BeginLocal
  BY <1>a, <1>11, Zenon DEF BeginLocal, ManagerInv, ManagerTypeOK, Unlocked
<1>12. CASE ReadLocalChunk
  BY <1>a, <1>12, Zenon DEF ReadLocalChunk, ManagerInv, ManagerTypeOK
<1>13. CASE EndLocal
  BY <1>a, <1>13, RestoreAssumption, Zenon
    DEF EndLocal, EndLocked, NoLocal, ManagerInv, ManagerTypeOK, NoSession
<1>14. CASE SaveChunk
  BY <1>a, <1>14, Zenon DEF SaveChunk, ManagerInv, StoreTypeOK
<1>15. CASE EndCreate
  BY <1>a, <1>15, RestoreAssumption, Zenon
    DEF EndCreate, EndLocked, NoCreate, ManagerInv, ManagerTypeOK, NoSession
<1>16. CASE BeginPrune
  BY <1>a, <1>16, Zenon DEF BeginPrune, ManagerInv, Unlocked
<1>17. ASSUME NEW h \in Heights, DeleteRecord(h)
     PROVE  ManagerInv'
  BY <1>a, <1>17, Zenon DEF DeleteRecord, ManagerInv
<1>18. CASE RemoveFiles
  BY <1>a, <1>18, Zenon DEF RemoveFiles, NoFiles, ManagerInv
<1>19. CASE EndPrune
  BY <1>a, <1>19, RestoreAssumption, Zenon
    DEF EndPrune, EndLocked, ManagerInv, ManagerTypeOK, NoSession
<1>20. CASE Crash
  BY <1>a, <1>20, RestoreAssumption
    DEF Crash, Each, NoLocal, NoCreate, ManagerInv, ManagerTypeOK, NoSession
<1>21. CASE UNCHANGED <<operation, session, chunkIndex, call, sessions, height, local, creating, pruning, records>>
  BY <1>a, <1>21, Zenon DEF ManagerInv
<1> QED
  BY <1>1, <1>2, <1>3, <1>4, <1>5, <1>6, <1>7, <1>8, <1>9, <1>10, <1>11, <1>12, <1>13,
       <1>14, <1>15, <1>16, <1>17, <1>18, <1>19, <1>20, <1>21, Zenon
    DEF Next, Restoring, Loader, Restorer, Local, Taking, Pruning, vars, HashMismatch,
        SaveChunkContentFails, LoadChunk, SendChunk, EndLoader, OpenFails, ApplyChunk,
        ApplyFails, RestoreExtension, ExtensionFails, ExtensionNotExhausted,
        EndOfStream, DrainChunk, EndRestorer, Close, Return, TakeChunk

\* A step touches nothing of a restore that has not begun.
LEMMA FreshStep ==
  ASSUME RestoreInv, [Next]_vars
  PROVE  FreshInv'
<1> USE DEF managerVars, channelVars, loaderVars, restorerVars, storeVars,
            environment, otherVars
<1>a. FreshInv /\ ManagerInv /\ ManagerTypeOK /\ ChannelTypeOK /\ GoroutineTypeOK
  BY Zenon DEF RestoreInv, TypeOK
<1>1. ASSUME NEW h \in Heights, Restore(h)
     PROVE  FreshInv'
  <2> SUFFICES ASSUME NEW t \in Session, t > sessions'
               PROVE  /\ t > sessions
                      /\ loader'[t] = loader[t] /\ restorer'[t] = restorer[t]
    BY <1>a, <1>1, Zenon DEF FreshInv, Restore
  <2>1. t \in Nat /\ sessions \in Nat /\ sessions' = sessions + 1
    BY <1>a, <1>1, RestoreAssumption DEF ManagerTypeOK, Restore, Session
  <2>2. t > sessions /\ t # sessions'
    BY <2>1
  <2> QED
    BY <1>a, <1>1, <2>2, Zenon DEF Restore, GoroutineTypeOK
<1>2. CASE PassChunk
  <2>1. \A t \in Session : t > sessions => t # session
    BY <1>a, RestoreAssumption DEF ManagerInv, ManagerTypeOK, Session, NoSession
  <2>2. \A t \in Session : t # session => ids'[t] = ids[t]
    BY <1>a, <1>2, Zenon DEF PassChunk, ChannelTypeOK
  <2> QED
    BY <1>a, <1>2, <2>1, <2>2, Zenon DEF PassChunk, FreshInv
<1>3. CASE PassLastChunk
  <2>1. \A t \in Session : t > sessions => t # session
    BY <1>a, RestoreAssumption DEF ManagerInv, ManagerTypeOK, Session, NoSession
  <2>2. \A t \in Session : t # session => ids'[t] = ids[t]
    BY <1>a, <1>3, Zenon DEF PassLastChunk, ChannelTypeOK
  <2> QED
    BY <1>a, <1>3, <2>1, <2>2, Zenon DEF PassLastChunk, FreshInv
<1>4. ASSUME NEW s \in Session, LoadChunk(s)
     PROVE  FreshInv'
  BY <1>a, <1>4, RestoreAssumption, SMTT(30) DEF LoadChunk, FreshInv, ChannelTypeOK, GoroutineTypeOK
<1>5. ASSUME NEW s \in Session, SendChunk(s)
     PROVE  FreshInv'
  BY <1>a, <1>5, RestoreAssumption, Zenon DEF SendChunk, FreshInv, ChannelTypeOK, GoroutineTypeOK
<1>6. ASSUME NEW s \in Session, EndLoader(s)
     PROVE  FreshInv'
  BY <1>a, <1>6, RestoreAssumption, Zenon DEF EndLoader, FreshInv, ChannelTypeOK, GoroutineTypeOK
<1>7. ASSUME NEW s \in Session, OpenFails(s)
     PROVE  FreshInv'
  BY <1>a, <1>7, RestoreAssumption, Zenon
    DEF OpenFails, Return, TakeChunk, FreshInv, ChannelTypeOK, GoroutineTypeOK
<1>8. ASSUME NEW s \in Session, ApplyChunk(s)
     PROVE  FreshInv'
  BY <1>a, <1>8, RestoreAssumption, Zenon
    DEF ApplyChunk, TakeChunk, FreshInv, ChannelTypeOK, GoroutineTypeOK
<1>9. ASSUME NEW s \in Session, ApplyFails(s)
     PROVE  FreshInv'
  BY <1>a, <1>9, RestoreAssumption, Zenon
    DEF ApplyFails, Close, FreshInv, ChannelTypeOK, GoroutineTypeOK
<1>10. ASSUME NEW s \in Session, RestoreExtension(s)
     PROVE  FreshInv'
  BY <1>a, <1>10, RestoreAssumption, Zenon
    DEF RestoreExtension, FreshInv, ChannelTypeOK, GoroutineTypeOK
<1>11. ASSUME NEW s \in Session, ExtensionFails(s)
     PROVE  FreshInv'
  BY <1>a, <1>11, RestoreAssumption, Zenon
    DEF ExtensionFails, Close, FreshInv, ChannelTypeOK, GoroutineTypeOK
<1>12. ASSUME NEW s \in Session, ExtensionNotExhausted(s)
     PROVE  FreshInv'
  BY <1>a, <1>12, RestoreAssumption, Zenon
    DEF ExtensionNotExhausted, Close, FreshInv, ChannelTypeOK, GoroutineTypeOK
<1>13. ASSUME NEW s \in Session, EndOfStream(s)
     PROVE  FreshInv'
  BY <1>a, <1>13, RestoreAssumption, Zenon
    DEF EndOfStream, Close, FreshInv, ChannelTypeOK, GoroutineTypeOK
<1>14. ASSUME NEW s \in Session, DrainChunk(s)
     PROVE  FreshInv'
  BY <1>a, <1>14, RestoreAssumption, Zenon
    DEF DrainChunk, TakeChunk, FreshInv, ChannelTypeOK, GoroutineTypeOK
<1>15. ASSUME NEW s \in Session, EndRestorer(s)
     PROVE  FreshInv'
  BY <1>a, <1>15, RestoreAssumption, Zenon
    DEF EndRestorer, Return, FreshInv, ChannelTypeOK, GoroutineTypeOK
<1>16. CASE Crash
  BY <1>a, <1>16, RestoreAssumption, Zenon
    DEF Crash, Each, NoLocal, NoCreate, FreshInv, ChannelTypeOK, GoroutineTypeOK
<1>17. CASE UNCHANGED <<sessions, ids, chunks, applied, held, extended, loader, restorer, outcome, done>>
  BY <1>a, <1>17, Zenon DEF FreshInv
<1> QED
  BY <1>1, <1>2, <1>3, <1>4, <1>5, <1>6, <1>7, <1>8, <1>9, <1>10, <1>11, <1>12, <1>13,
       <1>14, <1>15, <1>16, <1>17, Zenon
    DEF Next, Restoring, Loader, Restorer, Local, Taking, Pruning, vars, LoadLocal,
        BeginCreate, RestoreFails, RestoreEnded, HashMismatch, SaveChunkContentFails,
        RestoreChunk, RestoreReturns, BeginLocalFails, BeginLocal, ReadLocalChunk,
        EndLocal, SaveChunk, EndCreate, BeginPrune, DeleteRecord, RemoveFiles, EndPrune,
        EndLocked

\* A step leaves at most one restorer at work, that of the manager: the operation
\* of a restore ends only once its restorer has.
LEMMA OneRestorerStep ==
  ASSUME RestoreInv, [Next]_vars
  PROVE  OneRestorer'
<1> USE DEF managerVars, channelVars, loaderVars, restorerVars, storeVars,
            environment, otherVars
<1>a. OneRestorer /\ ManagerInv /\ ResultInv /\ ManagerTypeOK /\ GoroutineTypeOK
  BY Zenon DEF RestoreInv, TypeOK
<1>1. ASSUME NEW h \in Heights, Restore(h)
     PROVE  OneRestorer'
  BY <1>a, <1>1, RestoreAssumption, Zenon DEF Restore, Unlocked, OneRestorer, GoroutineTypeOK
<1>2. ASSUME NEW h \in Heights, LoadLocal(h)
     PROVE  OneRestorer'
  BY <1>a, <1>2, Zenon DEF LoadLocal, OneRestorer
<1>3. ASSUME NEW h \in Heights, BeginCreate(h)
     PROVE  OneRestorer'
  BY <1>a, <1>3, Zenon DEF BeginCreate, OneRestorer
<1>4. CASE RestoreFails
  BY <1>a, <1>4, Zenon DEF RestoreFails, OneRestorer
<1>5. CASE RestoreEnded
  BY <1>a, <1>5, Zenon DEF RestoreEnded, EndLocked, OneRestorer, ResultInv, Wanted
<1>6. CASE RestoreReturns
  BY <1>a, <1>6, Zenon DEF RestoreReturns, EndLocked, OneRestorer, ResultInv
<1>7. ASSUME NEW s \in Session, OpenFails(s)
     PROVE  OneRestorer'
  BY <1>a, <1>7, Zenon DEF OpenFails, Return, TakeChunk, OneRestorer, GoroutineTypeOK
<1>8. ASSUME NEW s \in Session, ApplyChunk(s)
     PROVE  OneRestorer'
  BY <1>a, <1>8, Zenon DEF ApplyChunk, TakeChunk, OneRestorer, GoroutineTypeOK
<1>9. ASSUME NEW s \in Session, ApplyFails(s)
     PROVE  OneRestorer'
  BY <1>a, <1>9, Zenon DEF ApplyFails, Close, OneRestorer, GoroutineTypeOK
<1>10. ASSUME NEW s \in Session, ExtensionFails(s)
     PROVE  OneRestorer'
  BY <1>a, <1>10, Zenon DEF ExtensionFails, Close, OneRestorer, GoroutineTypeOK
<1>11. ASSUME NEW s \in Session, ExtensionNotExhausted(s)
     PROVE  OneRestorer'
  BY <1>a, <1>11, Zenon DEF ExtensionNotExhausted, Close, OneRestorer, GoroutineTypeOK
<1>12. ASSUME NEW s \in Session, EndOfStream(s)
     PROVE  OneRestorer'
  BY <1>a, <1>12, Zenon DEF EndOfStream, Close, OneRestorer, GoroutineTypeOK
<1>13. ASSUME NEW s \in Session, EndRestorer(s)
     PROVE  OneRestorer'
  BY <1>a, <1>13, Zenon DEF EndRestorer, Return, OneRestorer, GoroutineTypeOK
<1>14. CASE BeginLocalFails
  BY <1>a, <1>14, Zenon DEF BeginLocalFails, NoLocal, OneRestorer
<1>15. CASE BeginLocal
  BY <1>a, <1>15, Zenon DEF BeginLocal, OneRestorer
<1>16. CASE ReadLocalChunk
  BY <1>a, <1>16, Zenon DEF ReadLocalChunk, OneRestorer, ManagerTypeOK
<1>17. CASE EndLocal
  BY <1>a, <1>17, Zenon DEF EndLocal, EndLocked, NoLocal, OneRestorer, ManagerInv
<1>18. CASE EndCreate
  BY <1>a, <1>18, Zenon DEF EndCreate, EndLocked, NoCreate, OneRestorer
<1>19. CASE BeginPrune
  BY <1>a, <1>19, Zenon DEF BeginPrune, OneRestorer
<1>20. CASE EndPrune
  BY <1>a, <1>20, Zenon DEF EndPrune, EndLocked, OneRestorer
<1>21. CASE Crash
  BY <1>a, <1>21, Zenon DEF Crash, Each, NoLocal, NoCreate, OneRestorer
<1>22. CASE UNCHANGED <<operation, session, restorer, local>>
  BY <1>a, <1>22, Zenon DEF OneRestorer
<1> QED
  BY <1>1, <1>2, <1>3, <1>4, <1>5, <1>6, <1>7, <1>8, <1>9, <1>10, <1>11, <1>12, <1>13,
       <1>14, <1>15, <1>16, <1>17, <1>18, <1>19, <1>20, <1>21, <1>22, Zenon
    DEF Next, Restoring, Loader, Restorer, Local, Taking, Pruning, vars, HashMismatch,
        SaveChunkContentFails, RestoreChunk, PassChunk, PassLastChunk, LoadChunk,
        SendChunk, EndLoader, RestoreExtension, DrainChunk, SaveChunk, DeleteRecord,
        RemoveFiles, TakeChunk

\* A step makes a good result only of a stream that has been read to its end.
LEMMA ResultStep ==
  ASSUME RestoreInv, [Next]_vars
  PROVE  ResultInv'
<1> USE DEF managerVars, channelVars, loaderVars, restorerVars, storeVars,
            environment, otherVars
<1>a. /\ ResultInv /\ FreshInv /\ FlowInv
      /\ ManagerTypeOK /\ ChannelTypeOK /\ GoroutineTypeOK
  BY Zenon DEF RestoreInv, TypeOK
<1>1. ASSUME NEW h \in Heights, Restore(h)
     PROVE  ResultInv'
  <2>1. /\ sessions' \in Session /\ sessions' > sessions
        /\ restorer' = [restorer EXCEPT ![sessions'] = "start"]
        /\ UNCHANGED <<completed, done, outcome, applied, extended, faults>>
    BY <1>a, <1>1, RestoreAssumption DEF ManagerTypeOK, Restore, Session
  <2>2. done[sessions'] = "empty" /\ outcome[sessions'] = "none"
    BY <1>a, <2>1, Zenon DEF FreshInv
  <2> QED
    BY <1>a, <2>1, <2>2, Zenon DEF ResultInv, GoroutineTypeOK
<1>2. CASE RestoreReturns
  BY <1>a, <1>2, Zenon DEF RestoreReturns, EndLocked, ResultInv
<1>3. ASSUME NEW s \in Session, OpenFails(s)
     PROVE  ResultInv'
  BY <1>a, <1>3, Zenon
    DEF OpenFails, Return, TakeChunk, ResultInv, ChannelTypeOK, GoroutineTypeOK
<1>4. ASSUME NEW s \in Session, ApplyChunk(s)
     PROVE  ResultInv'
  <2>1. \A t \in Session : t # s => applied'[t] = applied[t]
    BY <1>4 DEF ApplyChunk
  <2> QED
    BY <1>a, <1>4, <2>1, Zenon DEF ApplyChunk, ResultInv, GoroutineTypeOK
<1>5. ASSUME NEW s \in Session, ApplyFails(s)
     PROVE  ResultInv'
  BY <1>a, <1>5, Zenon DEF ApplyFails, Close, ResultInv, ChannelTypeOK, GoroutineTypeOK
<1>6. ASSUME NEW s \in Session, RestoreExtension(s)
     PROVE  ResultInv'
  BY <1>a, <1>6, Zenon DEF RestoreExtension, ResultInv, ChannelTypeOK, GoroutineTypeOK
<1>7. ASSUME NEW s \in Session, ExtensionFails(s)
     PROVE  ResultInv'
  BY <1>a, <1>7, Zenon DEF ExtensionFails, Close, ResultInv, ChannelTypeOK, GoroutineTypeOK
<1>8. ASSUME NEW s \in Session, ExtensionNotExhausted(s)
     PROVE  ResultInv'
  BY <1>a, <1>8, Zenon
    DEF ExtensionNotExhausted, Close, ResultInv, ChannelTypeOK, GoroutineTypeOK
<1>9. ASSUME NEW s \in Session, EndOfStream(s)
     PROVE  ResultInv'
  BY <1>a, <1>9, Zenon DEF EndOfStream, Close, ResultInv, FlowInv, Flow, GoroutineTypeOK
<1>10. ASSUME NEW s \in Session, EndRestorer(s)
     PROVE  ResultInv'
  BY <1>a, <1>10, Zenon DEF EndRestorer, Return, ResultInv, ChannelTypeOK, GoroutineTypeOK
<1>11. CASE Crash
  BY <1>a, <1>11, Zenon
    DEF Crash, Each, NoLocal, NoCreate, ResultInv, ChannelTypeOK, GoroutineTypeOK
<1>12. CASE UNCHANGED <<completed, done, restorer, outcome, applied, extended, faults>>
  BY <1>a, <1>12, Zenon DEF ResultInv
<1> QED
  BY <1>1, <1>2, <1>3, <1>4, <1>5, <1>6, <1>7, <1>8, <1>9, <1>10, <1>11, <1>12, Zenon
    DEF Next, Restoring, Loader, Restorer, Local, Taking, Pruning, vars, LoadLocal,
        BeginCreate, RestoreFails, RestoreEnded, HashMismatch, SaveChunkContentFails,
        RestoreChunk, PassChunk, PassLastChunk, LoadChunk, SendChunk, EndLoader,
        DrainChunk, BeginLocalFails, BeginLocal, ReadLocalChunk, EndLocal, SaveChunk,
        EndCreate, BeginPrune, DeleteRecord, RemoveFiles, EndPrune, EndLocked, TakeChunk

------------------------------------------------------------------------------
(* The stream of chunks *)

\* The counts of the chunks in the stream are natural numbers.
LEMMA StreamLengths ==
  ASSUME ChannelTypeOK, GoroutineTypeOK, NEW s \in Session
  PROVE  /\ Size(applied[s]) \in Nat /\ Size(chunks[s]) \in Nat /\ Size(ids[s]) \in Nat
         /\ Sent(s) \in Nat /\ Taken(s) \in Nat
<1>1. Size(applied[s]) \in Nat /\ Size(chunks[s]) \in Nat /\ Size(ids[s]) \in Nat
  BY DEF Size, ChannelTypeOK, GoroutineTypeOK
<1> QED
  BY <1>1 DEF Sent, Taken

\* The stream of a session is not disturbed by what happens to other sessions.
LEMMA FlowFrame ==
  ASSUME NEW t \in Session, Flow(t),
         applied'[t] = applied[t], chunks'[t] = chunks[t], held'[t] = held[t],
         ids'[t] = ids[t], loader'[t] = loader[t], restorer'[t] = restorer[t],
         \/ session' = NoSession
         \/ t # session'
         \/ session' = session /\ chunkIndex' = chunkIndex
  PROVE  Flow(t)'
<1>1. Sent(t)' = Sent(t) /\ Taken(t)' = Taken(t)
  BY Zenon DEF Sent, Taken
<1>2. t = session' => t = session /\ chunkIndex' = chunkIndex
  BY RestoreAssumption DEF Session, NoSession
<1> QED
  BY <1>1, <1>2, Zenon DEF Flow

\* A restorer that reads no more keeps what it has read, whatever is left.
LEMMA FlowClosed ==
  ASSUME NEW s \in Session, Flow(s), restorer'[s] \in {"close", "end"},
         UNCHANGED <<applied, held, loader>>
  PROVE  Flow(s)'
  BY Zenon DEF Flow

\* RestoreChunk passes on the number after those it has passed on before.
LEMMA PassFlow ==
  ASSUME FlowInv, ManagerTypeOK, ChannelTypeOK, GoroutineTypeOK,
         session \in Session, chunkIndex + 1 \in Index,
         ids' = [ids EXCEPT ![session] = Append(@, chunkIndex + 1)],
         chunkIndex' = chunkIndex + 1,
         UNCHANGED <<session, applied, chunks, held, loader, restorer>>
  PROVE  FlowInv'
<1> SUFFICES ASSUME NEW t \in Session PROVE Flow(t)'
  BY Zenon DEF FlowInv
<1>0. /\ \A u \in Session : u # session => ids'[u] = ids[u]
      /\ ids'[session] = Append(ids[session], chunkIndex + 1)
  BY Zenon DEF ChannelTypeOK
<1>1. /\ Size(ids'[session]) = Size(ids[session]) + 1
      /\ \A b \in Nat :
           Counts(ids[session], b) /\ chunkIndex + 1 = b + Size(ids[session]) + 1
             => Counts(ids'[session], b)
  BY <1>0, Appended, Zenon DEF ChannelTypeOK
<1>2. Flow(t)
  BY Zenon DEF FlowInv
<1>3. CASE t # session
  BY <1>0, <1>2, <1>3, FlowFrame, Zenon
<1>4. CASE t = session
  <2>1. Sent(t)' = Sent(t) /\ Taken(t)' = Taken(t)
    BY Zenon DEF Sent, Taken
  <2>2. Taken(t) \in Nat /\ Size(ids[t]) \in Nat
    BY StreamLengths, Zenon
  <2>3. ASSUME restorer[t] \notin {"close", "end"}, loader[t] # "end"
        PROVE  Counts(ids'[t], Taken(t)) /\ chunkIndex' = Taken(t) + Size(ids'[t])
    <3>1. Counts(ids[t], Taken(t)) /\ chunkIndex = Taken(t) + Size(ids[t])
      BY <1>2, <1>4, <2>3, Zenon DEF Flow
    <3> QED
      BY <1>1, <1>4, <2>2, <3>1
  <2> QED
    BY <1>2, <1>4, <2>1, <2>3, Zenon DEF Flow
<1> QED
  BY <1>3, <1>4, Zenon

\* The loader takes the next chunk number.
LEMMA LoadFlow ==
  ASSUME ChannelTypeOK, GoroutineTypeOK, NEW s \in Session, Flow(s), LoadChunk(s)
  PROVE  Flow(s)'
<1> USE DEF managerVars, restorerVars
<1>0. ids[s] \in Seq(Index) /\ ids[s] # <<>> /\ ids'[s] = Tail(ids[s])
  BY Zenon DEF ChannelTypeOK, LoadChunk
<1>1. /\ Size(ids'[s]) = Size(ids[s]) - 1 /\ Head(ids[s]) \in Index
      /\ \A b \in Nat : Counts(ids[s], b) => Head(ids[s]) = b + 1 /\ Counts(ids'[s], b + 1)
  BY <1>0, HeadTaken, Zenon
<1>2. /\ UNCHANGED <<applied, chunks, restorer, session, chunkIndex>>
      /\ held[s] = 0 /\ loader[s] = "run"
  BY Zenon DEF LoadChunk
<1>3. Sent(s) \in Nat /\ Size(ids[s]) \in Nat /\ Taken(s) = Sent(s) /\ Sent(s)' = Sent(s)
  BY <1>2, StreamLengths, Zenon DEF Sent, Taken
<1>4. CASE loader' = [loader EXCEPT ![s] = "end"] /\ held' = held
  BY <1>2, <1>3, <1>4, Zenon DEF Flow, GoroutineTypeOK
<1>5. CASE held' = [held EXCEPT ![s] = Head(ids[s])] /\ loader' = loader
  <2>1. held'[s] = Head(ids[s]) /\ held'[s] # 0
    BY <1>1, <1>5 DEF GoroutineTypeOK, Index
  <2>2. Taken(s)' = Sent(s) + 1
    BY <1>3, <2>1, Zenon DEF Taken
  <2>3. ASSUME restorer[s] \notin {"close", "end"}
        PROVE  /\ held'[s] = Sent(s) + 1
               /\ Counts(ids'[s], Sent(s) + 1)
               /\ s = session => chunkIndex = Sent(s) + 1 + Size(ids'[s])
    <3>1. Counts(ids[s], Sent(s)) /\ (s = session => chunkIndex = Sent(s) + Size(ids[s]))
      BY <1>2, <1>3, <2>3, Zenon DEF Flow
    <3> QED
      BY <1>1, <1>3, <2>1, <3>1
  <2> QED
    BY <1>2, <1>3, <1>5, <2>2, <2>3, Zenon DEF Flow
<1> QED
  BY <1>4, <1>5, Zenon DEF LoadChunk

\* The loader sends the chunk it holds.
LEMMA SendFlow ==
  ASSUME ChannelTypeOK, GoroutineTypeOK, NEW s \in Session, Flow(s), SendChunk(s)
  PROVE  Flow(s)'
<1> USE DEF managerVars, restorerVars
<1>1. held[s] \in Index /\ held[s] # 0 /\ held'[s] = 0
  BY RestoreAssumption DEF GoroutineTypeOK, SendChunk, Index
<1>0. chunks[s] \in Seq(Index) /\ chunks'[s] = Append(chunks[s], held[s])
  BY Zenon DEF ChannelTypeOK, SendChunk
<1>2. /\ Size(chunks'[s]) = Size(chunks[s]) + 1
      /\ \A b \in Nat :
           Counts(chunks[s], b) /\ held[s] = b + Size(chunks[s]) + 1 => Counts(chunks'[s], b)
  BY <1>0, <1>1, Appended, Zenon
<1>3. UNCHANGED <<applied, ids, loader, restorer, session, chunkIndex>>
  BY Zenon DEF SendChunk
<1>4. /\ Size(applied[s]) \in Nat /\ Size(chunks[s]) \in Nat
      /\ Sent(s) = Size(applied[s]) + Size(chunks[s])
      /\ Sent(s)' = Size(applied[s]) + Size(chunks'[s])
  BY <1>3, StreamLengths, Zenon DEF Sent
<1>5. Sent(s)' = Sent(s) + 1
  BY <1>2, <1>4
<1>6. Taken(s) = Sent(s) + 1 /\ Taken(s)' = Taken(s)
  BY <1>1, <1>5, Zenon DEF Taken
<1>7. ASSUME restorer[s] \notin {"close", "end"}
      PROVE  Counts(chunks'[s], Size(applied[s]))
  <2>1. Counts(chunks[s], Size(applied[s])) /\ held[s] = Sent(s) + 1
    BY <1>1, <1>7, Zenon DEF Flow
  <2> QED
    BY <1>2, <1>4, <2>1, Zenon
<1> QED
  BY <1>1, <1>3, <1>6, <1>7, Zenon DEF Flow

\* The restorer applies the next chunk.
LEMMA ApplyFlow ==
  ASSUME ChannelTypeOK, GoroutineTypeOK, NEW s \in Session, Flow(s), ApplyChunk(s)
  PROVE  Flow(s)'
<1> USE DEF managerVars, loaderVars
<1>0. chunks[s] \in Seq(Index) /\ chunks[s] # <<>> /\ chunks'[s] = Tail(chunks[s])
  BY Zenon DEF ChannelTypeOK, ApplyChunk, TakeChunk
<1>a. applied[s] \in Seq(Index) /\ applied'[s] = Append(applied[s], Head(chunks[s]))
  BY Zenon DEF GoroutineTypeOK, ApplyChunk
<1>1. /\ Size(chunks'[s]) = Size(chunks[s]) - 1 /\ Head(chunks[s]) \in Index
      /\ \A b \in Nat :
           Counts(chunks[s], b) => Head(chunks[s]) = b + 1 /\ Counts(chunks'[s], b + 1)
  BY <1>0, HeadTaken, Zenon
<1>2. /\ Size(applied'[s]) = Size(applied[s]) + 1
      /\ \A b \in Nat :
           Counts(applied[s], b) /\ Head(chunks[s]) = b + Size(applied[s]) + 1
             => Counts(applied'[s], b)
  BY <1>a, <1>1, Appended, Zenon
<1>3. /\ UNCHANGED <<held, ids, loader, session, chunkIndex>>
      /\ restorer[s] \in {"start", "apply"}
      /\ restorer'[s] = "extend" => Head(chunks[s]) = Chunks
  BY Zenon DEF ApplyChunk, GoroutineTypeOK
<1>4. /\ Size(applied[s]) \in Nat /\ Size(chunks[s]) \in Nat
      /\ Sent(s) = Size(applied[s]) + Size(chunks[s])
      /\ Sent(s)' = Size(applied'[s]) + Size(chunks'[s])
  BY StreamLengths, Zenon DEF Sent
<1>5. Sent(s)' = Sent(s)
  BY <1>1, <1>2, <1>4
<1>6. Taken(s)' = Taken(s)
  BY <1>3, <1>5, Zenon DEF Taken
<1>7. /\ Counts(applied[s], 0) /\ Counts(chunks[s], Size(applied[s]))
      /\ held[s] \in {0, Sent(s) + 1}
      /\ loader[s] # "end" =>
           /\ Counts(ids[s], Taken(s))
           /\ s = session => chunkIndex = Taken(s) + Size(ids[s])
      /\ held[s] # 0 => loader[s] = "run"
  BY <1>3, Zenon DEF Flow
<1>8. Head(chunks[s]) = Size(applied[s]) + 1 /\ Counts(chunks'[s], Size(applied'[s]))
  BY <1>1, <1>2, <1>4, <1>7, Zenon
<1>9. Counts(applied'[s], 0)
  BY <1>2, <1>4, <1>7, <1>8
<1> QED
  BY <1>2, <1>3, <1>5, <1>6, <1>7, <1>8, <1>9, Zenon DEF Flow

\* A step keeps the stream of every restore in order and without a gap.
LEMMA FlowStep ==
  ASSUME RestoreInv, [Next]_vars
  PROVE  FlowInv'
<1> USE DEF managerVars, channelVars, loaderVars, restorerVars, storeVars,
            environment, otherVars
<1>a. /\ FlowInv /\ ManagerInv /\ FreshInv
      /\ ManagerTypeOK /\ ChannelTypeOK /\ GoroutineTypeOK
  BY Zenon DEF RestoreInv, TypeOK
<1>1. ASSUME NEW h \in Heights, Restore(h)
     PROVE  FlowInv'
  <2>1. PICK s \in Session : s = sessions + 1 /\ sessions < s
    BY <1>a, <1>1, RestoreAssumption DEF ManagerTypeOK, Restore, Session
  <2>2. /\ ids[s] = <<>> /\ chunks[s] = <<>> /\ applied[s] = <<>> /\ held[s] = 0
        /\ Len(<<>>) = 0
    BY <1>a, <2>1, EmptySeq, Zenon DEF FreshInv
  <2>3. session' = s /\ chunkIndex' = 0
    BY <1>1, <2>1, Zenon DEF Restore
  <2>4. ASSUME NEW t \in Session, t # s PROVE Flow(t)'
    <3>1. /\ loader'[t] = loader[t] /\ restorer'[t] = restorer[t]
          /\ UNCHANGED <<applied, chunks, held, ids>>
      BY <1>a, <1>1, <2>1, <2>4, Zenon DEF Restore, GoroutineTypeOK
    <3> QED
      BY <1>a, <2>3, <2>4, <3>1, FlowFrame, Zenon DEF FlowInv
  <2>5. Flow(s)'
    <3>1. /\ restorer'[s] = "start"
          /\ UNCHANGED <<applied, chunks, held, ids>>
      BY <1>a, <1>1, <2>1, Zenon DEF Restore, GoroutineTypeOK
    <3>2. Size(<<>>) = 0 /\ \A b \in Nat : Counts(<<>>, b)
      BY <2>2 DEF Size, Counts
    <3>3. Sent(s)' = 0 /\ Taken(s)' = 0
      BY <2>2, <3>1, <3>2 DEF Sent, Taken
    <3> QED
      BY <2>2, <2>3, <3>1, <3>2, <3>3 DEF Flow
  <2> QED
    BY <2>4, <2>5, Zenon DEF FlowInv
<1>2. CASE RestoreEnded
  <2>1. session' = NoSession /\ UNCHANGED <<applied, chunks, held, ids, loader, restorer>>
    BY <1>2, Zenon DEF RestoreEnded, EndLocked
  <2> QED
    BY <1>a, <2>1, FlowFrame, Zenon DEF FlowInv
<1>3. CASE PassChunk
  <2>1. session \in Session /\ chunkIndex + 1 \in Index
    BY <1>a, <1>3, RestoreAssumption DEF PassChunk, ManagerInv, ManagerTypeOK, Index, NoSession
  <2>2. /\ ids' = [ids EXCEPT ![session] = Append(@, chunkIndex + 1)]
        /\ chunkIndex' = chunkIndex + 1
        /\ UNCHANGED <<session, applied, chunks, held, loader, restorer>>
    BY <1>3, Zenon DEF PassChunk
  <2> QED
    BY <1>a, <2>1, <2>2, PassFlow, Zenon
<1>4. CASE PassLastChunk
  <2>1. session \in Session /\ chunkIndex + 1 = Chunks /\ Chunks \in Index
    BY <1>a, <1>4, RestoreAssumption DEF PassLastChunk, ManagerInv, ManagerTypeOK, Index, NoSession
  <2>2. /\ ids' = [ids EXCEPT ![session] = Append(@, chunkIndex + 1)]
        /\ chunkIndex' = chunkIndex + 1
        /\ UNCHANGED <<session, applied, chunks, held, loader, restorer>>
    BY <1>4, <2>1, Zenon DEF PassLastChunk
  <2> QED
    BY <1>a, <2>1, <2>2, PassFlow, Zenon
<1>5. CASE RestoreReturns
  <2>1. session' = NoSession /\ UNCHANGED <<applied, chunks, held, ids, loader, restorer>>
    BY <1>5, Zenon DEF RestoreReturns, EndLocked
  <2> QED
    BY <1>a, <2>1, FlowFrame, Zenon DEF FlowInv
<1>6. ASSUME NEW s \in Session, LoadChunk(s)
     PROVE  FlowInv'
  <2>1. ASSUME NEW t \in Session, t # s PROVE Flow(t)'
    <3>1. /\ held'[t] = held[t] /\ loader'[t] = loader[t] /\ ids'[t] = ids[t]
          /\ UNCHANGED <<applied, chunks, restorer, session, chunkIndex>>
      BY <1>a, <1>6, <2>1, Zenon DEF LoadChunk, ChannelTypeOK, GoroutineTypeOK
    <3> QED
      BY <1>a, <3>1, FlowFrame, Zenon DEF FlowInv
  <2>2. Flow(s)'
    BY <1>a, <1>6, LoadFlow, Zenon DEF FlowInv
  <2> QED
    BY <2>1, <2>2, Zenon DEF FlowInv
<1>7. ASSUME NEW s \in Session, SendChunk(s)
     PROVE  FlowInv'
  <2>1. ASSUME NEW t \in Session, t # s PROVE Flow(t)'
    <3>1. /\ held'[t] = held[t] /\ chunks'[t] = chunks[t]
          /\ UNCHANGED <<applied, ids, loader, restorer, session, chunkIndex>>
      BY <1>a, <1>7, <2>1, Zenon DEF SendChunk, ChannelTypeOK, GoroutineTypeOK
    <3> QED
      BY <1>a, <3>1, FlowFrame, Zenon DEF FlowInv
  <2>2. Flow(s)'
    BY <1>a, <1>7, SendFlow, Zenon DEF FlowInv
  <2> QED
    BY <2>1, <2>2, Zenon DEF FlowInv
<1>8. ASSUME NEW s \in Session, EndLoader(s)
     PROVE  FlowInv'
  <2>1. ASSUME NEW t \in Session, t # s PROVE Flow(t)'
    <3>1. /\ loader'[t] = loader[t]
          /\ UNCHANGED <<applied, chunks, held, ids, restorer, session, chunkIndex>>
      BY <1>a, <1>8, <2>1, Zenon DEF EndLoader, GoroutineTypeOK
    <3> QED
      BY <1>a, <3>1, FlowFrame, Zenon DEF FlowInv
  <2>2. Flow(s)'
    <3>1. /\ loader'[s] = "end" /\ held[s] = 0
          /\ UNCHANGED <<applied, chunks, held, restorer>>
      BY <1>a, <1>8, Zenon DEF EndLoader, GoroutineTypeOK
    <3> QED
      BY <1>a, <3>1, Zenon DEF FlowInv, Flow
  <2> QED
    BY <2>1, <2>2, Zenon DEF FlowInv
<1>9. ASSUME NEW s \in Session, OpenFails(s)
     PROVE  FlowInv'
  <2>1. ASSUME NEW t \in Session, t # s PROVE Flow(t)'
    <3>1. /\ restorer'[t] = restorer[t] /\ chunks'[t] = chunks[t]
          /\ UNCHANGED <<applied, held, ids, loader, session, chunkIndex>>
      BY <1>a, <1>9, <2>1, Zenon DEF OpenFails, Return, TakeChunk, ChannelTypeOK, GoroutineTypeOK
    <3> QED
      BY <1>a, <3>1, FlowFrame, Zenon DEF FlowInv
  <2>2. Flow(s)'
    <3>1. restorer'[s] \in {"close", "end"} /\ UNCHANGED <<applied, held, loader>>
      BY <1>a, <1>9, Zenon DEF OpenFails, Return, GoroutineTypeOK
    <3> QED
      BY <1>a, <3>1, FlowClosed, Zenon DEF FlowInv
  <2> QED
    BY <2>1, <2>2, Zenon DEF FlowInv
<1>10. ASSUME NEW s \in Session, ApplyChunk(s)
     PROVE  FlowInv'
  <2>1. ASSUME NEW t \in Session, t # s PROVE Flow(t)'
    <3>1. /\ restorer'[t] = restorer[t] /\ chunks'[t] = chunks[t] /\ applied'[t] = applied[t]
          /\ UNCHANGED <<held, ids, loader, session, chunkIndex>>
      BY <1>a, <1>10, <2>1, Zenon DEF ApplyChunk, TakeChunk, ChannelTypeOK, GoroutineTypeOK
    <3> QED
      BY <1>a, <3>1, FlowFrame, Zenon DEF FlowInv
  <2>2. Flow(s)'
    BY <1>a, <1>10, ApplyFlow, Zenon DEF FlowInv
  <2> QED
    BY <2>1, <2>2, Zenon DEF FlowInv
<1>11. ASSUME NEW s \in Session, ApplyFails(s)
     PROVE  FlowInv'
  <2>1. ASSUME NEW t \in Session, t # s PROVE Flow(t)'
    <3>1. /\ restorer'[t] = restorer[t]
          /\ UNCHANGED <<applied, chunks, held, ids, loader, session, chunkIndex>>
      BY <1>a, <1>11, <2>1, Zenon DEF ApplyFails, Close, GoroutineTypeOK
    <3> QED
      BY <1>a, <3>1, FlowFrame, Zenon DEF FlowInv
  <2>2. Flow(s)'
    <3>1. restorer'[s] \in {"close", "end"} /\ UNCHANGED <<applied, held, loader>>
      BY <1>a, <1>11, Zenon DEF ApplyFails, Close, GoroutineTypeOK
    <3> QED
      BY <1>a, <3>1, FlowClosed, Zenon DEF FlowInv
  <2> QED
    BY <2>1, <2>2, Zenon DEF FlowInv
<1>12. ASSUME NEW s \in Session, ExtensionFails(s)
     PROVE  FlowInv'
  <2>1. ASSUME NEW t \in Session, t # s PROVE Flow(t)'
    <3>1. /\ restorer'[t] = restorer[t]
          /\ UNCHANGED <<applied, chunks, held, ids, loader, session, chunkIndex>>
      BY <1>a, <1>12, <2>1, Zenon DEF ExtensionFails, Close, GoroutineTypeOK
    <3> QED
      BY <1>a, <3>1, FlowFrame, Zenon DEF FlowInv
  <2>2. Flow(s)'
    <3>1. restorer'[s] \in {"close", "end"} /\ UNCHANGED <<applied, held, loader>>
      BY <1>a, <1>12, Zenon DEF ExtensionFails, Close, GoroutineTypeOK
    <3> QED
      BY <1>a, <3>1, FlowClosed, Zenon DEF FlowInv
  <2> QED
    BY <2>1, <2>2, Zenon DEF FlowInv
<1>13. ASSUME NEW s \in Session, ExtensionNotExhausted(s)
     PROVE  FlowInv'
  <2>1. ASSUME NEW t \in Session, t # s PROVE Flow(t)'
    <3>1. /\ restorer'[t] = restorer[t]
          /\ UNCHANGED <<applied, chunks, held, ids, loader, session, chunkIndex>>
      BY <1>a, <1>13, <2>1, Zenon DEF ExtensionNotExhausted, Close, GoroutineTypeOK
    <3> QED
      BY <1>a, <3>1, FlowFrame, Zenon DEF FlowInv
  <2>2. Flow(s)'
    <3>1. restorer'[s] \in {"close", "end"} /\ UNCHANGED <<applied, held, loader>>
      BY <1>a, <1>13, Zenon DEF ExtensionNotExhausted, Close, GoroutineTypeOK
    <3> QED
      BY <1>a, <3>1, FlowClosed, Zenon DEF FlowInv
  <2> QED
    BY <2>1, <2>2, Zenon DEF FlowInv
<1>14. ASSUME NEW s \in Session, EndOfStream(s)
     PROVE  FlowInv'
  <2>1. ASSUME NEW t \in Session, t # s PROVE Flow(t)'
    <3>1. /\ restorer'[t] = restorer[t]
          /\ UNCHANGED <<applied, chunks, held, ids, loader, session, chunkIndex>>
      BY <1>a, <1>14, <2>1, Zenon DEF EndOfStream, Close, GoroutineTypeOK
    <3> QED
      BY <1>a, <3>1, FlowFrame, Zenon DEF FlowInv
  <2>2. Flow(s)'
    <3>1. restorer'[s] \in {"close", "end"} /\ UNCHANGED <<applied, held, loader>>
      BY <1>a, <1>14, Zenon DEF EndOfStream, Close, GoroutineTypeOK
    <3> QED
      BY <1>a, <3>1, FlowClosed, Zenon DEF FlowInv
  <2> QED
    BY <2>1, <2>2, Zenon DEF FlowInv
<1>15. ASSUME NEW s \in Session, DrainChunk(s)
     PROVE  FlowInv'
  <2>1. ASSUME NEW t \in Session, t # s PROVE Flow(t)'
    <3>1. /\ chunks'[t] = chunks[t]
          /\ UNCHANGED <<applied, held, ids, loader, restorer, session, chunkIndex>>
      BY <1>a, <1>15, <2>1, Zenon DEF DrainChunk, TakeChunk, ChannelTypeOK, GoroutineTypeOK
    <3> QED
      BY <1>a, <3>1, FlowFrame, Zenon DEF FlowInv
  <2>2. Flow(s)'
    <3>1. restorer'[s] \in {"close", "end"} /\ UNCHANGED <<applied, held, loader>>
      BY <1>a, <1>15, Zenon DEF DrainChunk, GoroutineTypeOK
    <3> QED
      BY <1>a, <3>1, FlowClosed, Zenon DEF FlowInv
  <2> QED
    BY <2>1, <2>2, Zenon DEF FlowInv
<1>16. ASSUME NEW s \in Session, EndRestorer(s)
     PROVE  FlowInv'
  <2>1. ASSUME NEW t \in Session, t # s PROVE Flow(t)'
    <3>1. /\ restorer'[t] = restorer[t]
          /\ UNCHANGED <<applied, chunks, held, ids, loader, session, chunkIndex>>
      BY <1>a, <1>16, <2>1, Zenon DEF EndRestorer, Return, GoroutineTypeOK
    <3> QED
      BY <1>a, <3>1, FlowFrame, Zenon DEF FlowInv
  <2>2. Flow(s)'
    <3>1. restorer'[s] \in {"close", "end"} /\ UNCHANGED <<applied, held, loader>>
      BY <1>a, <1>16, Zenon DEF EndRestorer, Return, GoroutineTypeOK
    <3> QED
      BY <1>a, <3>1, FlowClosed, Zenon DEF FlowInv
  <2> QED
    BY <2>1, <2>2, Zenon DEF FlowInv
<1>17. CASE EndLocal
  <2>1. session' = NoSession /\ UNCHANGED <<applied, chunks, held, ids, loader, restorer>>
    BY <1>17, Zenon DEF EndLocal, EndLocked
  <2> QED
    BY <1>a, <2>1, FlowFrame, Zenon DEF FlowInv
<1>18. CASE EndCreate
  <2>1. session' = NoSession /\ UNCHANGED <<applied, chunks, held, ids, loader, restorer>>
    BY <1>18, Zenon DEF EndCreate, EndLocked
  <2> QED
    BY <1>a, <2>1, FlowFrame, Zenon DEF FlowInv
<1>19. CASE EndPrune
  <2>1. session' = NoSession /\ UNCHANGED <<applied, chunks, held, ids, loader, restorer>>
    BY <1>19, Zenon DEF EndPrune, EndLocked
  <2> QED
    BY <1>a, <2>1, FlowFrame, Zenon DEF FlowInv
<1>20. CASE Crash
  <2>1. Len(<<>>) = 0
    BY EmptySeq, Zenon
  <2> QED
    BY <1>20, <2>1 DEF Crash, Each, FlowInv, Flow, Counts, Size, Sent, Taken, Session, NoSession
<1>21. CASE UNCHANGED <<applied, chunks, held, ids, loader, restorer, session, chunkIndex>>
  BY <1>a, <1>21, Zenon DEF FlowInv, Flow, Sent, Taken
<1> QED
  BY <1>1, <1>2, <1>3, <1>4, <1>5, <1>6, <1>7, <1>8, <1>9, <1>10, <1>11, <1>12, <1>13,
       <1>14, <1>15, <1>16, <1>17, <1>18, <1>19, <1>20, <1>21, Zenon
    DEF Next, Restoring, Loader, Restorer, Local, Taking, Pruning, vars, LoadLocal,
        BeginCreate, RestoreFails, HashMismatch, SaveChunkContentFails, RestoreChunk,
        RestoreExtension, BeginLocalFails, BeginLocal, ReadLocalChunk, SaveChunk,
        BeginPrune, DeleteRecord, RemoveFiles

------------------------------------------------------------------------------
(* Theorems *)

\* Every step, of whatever call or goroutine, preserves the inductive invariant.
LEMMA RestoreStep == RestoreInv /\ [Next]_vars => RestoreInv'
<1> SUFFICES ASSUME RestoreInv, [Next]_vars PROVE RestoreInv'
  BY Zenon
<1>1. ManagerTypeOK' /\ StoreTypeOK' /\ ChannelTypeOK' /\ GoroutineTypeOK'
  BY ManagerTypes, StoreTypes, ChannelTypes, GoroutineTypes, Zenon
<1>2. ManagerInv' /\ FreshInv' /\ FlowInv' /\ ResultInv' /\ SavedInv'
  BY ManagerStep, FreshStep, FlowStep, ResultStep, SavedStep, Zenon
<1>3. OneRestorer' /\ RecordsAreWhole'
  BY OneRestorerStep, RecordsStep, Zenon
<1>4. \A s \in Session : applied'[s] = SubSeq(AllChunks, 1, Len(applied'[s]))
  BY <1>1, <1>2, CountedIsPrefix, Zenon DEF GoroutineTypeOK, FlowInv, Flow
<1> QED
  BY <1>1, <1>2, <1>3, <1>4, Zenon DEF RestoreInv, TypeOK

\* The inductive invariant holds of every state that Restore, RestoreChunk, the
\* goroutines, RestoreLocalSnapshot, Create, Prune and crashes lead to.
THEOREM RestoreInvariant == Spec => []RestoreInv
  BY InitiallyRestoreInv, RestoreStep, PTL DEF Spec

\* The channels stay within their capacities, and what a restorer has read is
\* always the snapshot from its first chunk on.
THEOREM RestoreTypes == Spec => []TypeOK
<1>1. RestoreInv => TypeOK
  BY Zenon DEF RestoreInv
<1> QED
  BY <1>1, RestoreInvariant, PTL

\* Only a single long-running operation changes the multistore: a restorer at
\* work is that of the operation in progress.
THEOREM SingleRestorer == Spec => []OneRestorer
<1>1. RestoreInv => OneRestorer
  BY Zenon DEF RestoreInv
<1> QED
  BY <1>1, RestoreInvariant, PTL

\* A restore that RestoreChunk reports complete has read the whole snapshot, in
\* order, and restored every extension.
THEOREM CompleteRestores == Spec => []CompleteIsWhole
<1>1. RestoreInv => CompleteIsWhole
  <2> SUFFICES ASSUME RestoreInv, "partial" \notin faults, NEW s \in completed
               PROVE  applied[s] = AllChunks /\ extended[s] = Extensions
    BY Zenon DEF CompleteIsWhole
  <2>1. s \in Session /\ applied[s] \in Seq(Index)
    BY Zenon DEF RestoreInv, TypeOK, ManagerTypeOK, GoroutineTypeOK
  <2>2. Size(applied[s]) = Chunks /\ extended[s] = Extensions
    BY <2>1, Zenon DEF RestoreInv, ResultInv
  <2>3. Counts(applied[s], 0)
    BY <2>1, Zenon DEF RestoreInv, FlowInv, Flow
  <2> QED
    BY <2>1, <2>2, <2>3, CountedIsPrefix, Zenon DEF Size
<1> QED
  BY <1>1, RestoreInvariant, PTL

\* Every snapshot with a record has all its chunks on disk, across crashes,
\* deletions and restores from a peer.
THEOREM ServableRecords == Spec => []RecordsAreWhole
<1>1. RestoreInv => RecordsAreWhole
  BY Zenon DEF RestoreInv
<1> QED
  BY <1>1, RestoreInvariant, PTL

==============================================================================
