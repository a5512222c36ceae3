--------------------------- MODULE SnapshotRestore ---------------------------
(***************************************************************************)
(* Restoring a snapshot (src/snapshots/manager.go): Restore starts a       *)
(* loader, which turns chunk numbers into chunk files, and a restorer,     *)
(* which applies the chunks to the multistore; RestoreChunk feeds them and *)
(* waits for the restorer at the end.  Beside it, on the same snapshot     *)
(* store (src/snapshots/store.go): Create, Prune, RestoreLocalSnapshot and *)
(* crashes.                                                                *)
(*                                                                         *)
(* A snapshot has the chunks 1 .. Chunks, the last of which ends the zlib  *)
(* stream and holds the items of the extensions.  A call of Restore that   *)
(* is accepted is a session: it has channels and goroutines of its own.    *)
(***************************************************************************)
EXTENDS Integers, Sequences

CONSTANTS
  Heights,        \* heights snapshots are taken of or offered for
  Chunks,         \* chunks of a snapshot
  Extensions,     \* number of registered extension snapshotters
  ChunkIDBuffer,  \* chunkIDBufferSize
  ChunkBuffer,    \* chunkBufferSize
  FaultSets,      \* the sets of faults, see Fault, one of which may happen
  MaxSessions,    \* bound on the restores accepted
  MaxCrashes      \* bound on the crashes

\* mkdir: a directory cannot be made.  write, load: a chunk file.  header,
\* apply: data the restorer refuses, at the start of the stream or later.
\* extension, partial: RestoreExtension fails, or stops before its items end.
\* record: the database refuses the record of a snapshot.
Fault == {"mkdir", "write", "load", "header", "apply", "extension", "partial", "record"}

ASSUME RestoreAssumption ==
  /\ Heights \subseteq Nat \ {0}
  /\ {Chunks, ChunkIDBuffer, ChunkBuffer, MaxSessions} \subseteq Nat \ {0}
  /\ {Extensions, MaxCrashes} \subseteq Nat
  /\ FaultSets \subseteq SUBSET Fault

Session == 1 .. MaxSessions
NoSession == 0
Index == 1 .. Chunks
AllChunks == [i \in Index |-> i]

VARIABLES
  operation,   \* Manager.operation
  session,     \* the session of restoreSnapshot and chRestoreDone
  chunkIndex,  \* restoreChunkIndex: chunks passed on
  call,        \* where a RestoreChunk that holds the mutex waits
  sessions,    \* sessions so far
  height,      \* session -> height of its snapshot
  ids,         \* session -> chChunkIDs
  idsClosed,   \* session -> it is closed
  loader,      \* session -> loadChunkStream
  held,        \* session -> chunk it has to send, 0 for none
  chunks,      \* session -> the channel of chunks, closed when the loader ends
  restorer,    \* session -> doRestoreSnapshot
  applied,     \* session -> chunks it has read
  extended,    \* session -> extensions it has restored
  outcome,     \* session -> what it will return
  done,        \* session -> chDone
  completed,   \* sessions that RestoreChunk reported complete
  local,       \* RestoreLocalSnapshot: its height, stage and chunks read
  creating,    \* Create: height and chunks saved
  saving,      \* Store.saving
  pruning,     \* height whose record Prune has deleted, and not the files yet
  files,       \* height -> chunk -> file on disk
  records,     \* heights with a record in the database
  crashes,
  faults       \* the faults that may happen in this behaviour

managerVars == <<operation, session, chunkIndex, call, sessions, completed>>
channelVars == <<ids, idsClosed, chunks, done>>
loaderVars == <<loader, held>>
restorerVars == <<restorer, applied, extended, outcome>>
storeVars == <<saving, files, records>>
environment == <<crashes, faults>>
otherVars == <<local, creating, pruning, environment>>
vars == <<managerVars, height, channelVars, loaderVars, restorerVars, storeVars, otherVars>>

NoLocal == [height |-> 0, stage |-> "none", read |-> 0]
NoCreate == [height |-> 0, saved |-> 0]
NoFiles == [i \in Index |-> "none"]

Each(x) == [s \in Session |-> x]

Init ==
  /\ operation = "none" /\ session = NoSession /\ chunkIndex = 0
  /\ call = "none" /\ sessions = 0 /\ completed = {}
  /\ height = Each(0)
  /\ ids = Each(<<>>) /\ idsClosed = Each(FALSE) /\ chunks = Each(<<>>)
  /\ done = Each("empty")
  /\ loader = Each("none") /\ held = Each(0)
  /\ restorer = Each("none") /\ applied = Each(<<>>) /\ extended = Each(0)
  /\ outcome = Each("none")
  /\ saving = {}
  /\ files = [h \in Heights |-> NoFiles]
  /\ records = {}
  /\ local = NoLocal /\ creating = NoCreate /\ pruning = 0
  /\ crashes = 0
  /\ faults \in FaultSets

\* The mutex is free: no RestoreChunk is waiting with it and no
\* RestoreLocalSnapshot under way.
Unlocked == call = "none" /\ local.stage # "restoring"

\* A bug that TLC must find: chRestore is left open.
EndLockedOpen ==
  /\ operation' = "none"
  /\ session' = NoSession
  /\ chunkIndex' = 0
  /\ UNCHANGED idsClosed

\* endLocked: the operation ends and chRestore, if still there, is closed.
EndLocked ==
  /\ operation' = "none"
  /\ session' = NoSession
  /\ chunkIndex' = 0
  /\ idsClosed' = IF session = NoSession THEN idsClosed
                  ELSE [idsClosed EXCEPT ![session] = TRUE]

------------------------------------------------------------------------------
(* Restore *)

Restore(h) ==
  /\ Unlocked
  /\ operation = "none"
  /\ sessions < MaxSessions
  /\ operation' = "restore"
  /\ sessions' = sessions + 1
  /\ session' = sessions'
  /\ chunkIndex' = 0
  /\ height' = [height EXCEPT ![sessions'] = h]
  /\ loader' = [loader EXCEPT ![sessions'] = "run"]
  /\ restorer' = [restorer EXCEPT ![sessions'] = "start"]
  /\ UNCHANGED <<call, completed, channelVars, held, applied, extended, outcome,
                 storeVars, otherVars>>

\* The directory cannot be made: an error, with the operation begun.
RestoreFails ==
  /\ "mkdir" \in faults
  /\ Unlocked
  /\ operation = "none"
  /\ operation' = "restore"
  /\ UNCHANGED <<session, chunkIndex, call, sessions, completed, height, channelVars,
                 loaderVars, restorerVars, storeVars, otherVars>>

------------------------------------------------------------------------------
(* RestoreChunk *)

\* There is a restore that wants a chunk.
Wanted ==
  /\ Unlocked
  /\ operation = "restore"
  /\ session # NoSession
  /\ chunkIndex < Chunks

\* A bug that TLC must find: the error is returned and the operation stays.
RestoreEndedStays ==
  /\ Wanted
  /\ done[session] # "empty"
  /\ UNCHANGED vars

\* The restorer has ended: the operation ends with an error.
RestoreEnded ==
  /\ Wanted
  /\ done[session] # "empty"
  /\ EndLocked
  /\ UNCHANGED <<call, sessions, completed, height, ids, chunks, done, loaderVars,
                 restorerVars, storeVars, otherVars>>

\* A bug that TLC must find: a chunk with another hash ends the operation.
HashMismatchEnds ==
  /\ Wanted
  /\ done[session] = "empty"
  /\ EndLocked
  /\ UNCHANGED <<call, sessions, completed, height, ids, chunks, done, loaderVars,
                 restorerVars, storeVars, otherVars>>

\* A chunk with another hash: an error, and the restore goes on.
HashMismatch ==
  /\ Wanted
  /\ done[session] = "empty"
  /\ UNCHANGED vars

\* saveChunkContent fails, and may leave a part of the chunk.
SaveChunkContentFails ==
  /\ "write" \in faults
  /\ Wanted
  /\ done[session] = "empty"
  /\ files' = [files EXCEPT ![height[session]][chunkIndex + 1] = "torn"]
  /\ UNCHANGED <<managerVars, height, channelVars, loaderVars, restorerVars, saving,
                 records, otherVars>>

\* The chunk is good and saved, and is to be passed on.
RestoreChunk ==
  /\ Wanted
  /\ done[session] = "empty"
  /\ files' = [files EXCEPT ![height[session]][chunkIndex + 1] = "whole"]
  /\ call' = "send"
  /\ UNCHANGED <<operation, session, chunkIndex, sessions, completed, height,
                 channelVars, loaderVars, restorerVars, saving, records, otherVars>>

\* A bug that TLC must find: the index is passed on after it has grown.
PassChunkLate ==
  /\ call = "send"
  /\ Len(ids[session]) < ChunkIDBuffer
  /\ chunkIndex + 1 < Chunks
  /\ ids' = [ids EXCEPT ![session] = Append(@, chunkIndex + 2)]
  /\ chunkIndex' = chunkIndex + 1
  /\ call' = "none"
  /\ UNCHANGED <<operation, session, sessions, completed, height, idsClosed, chunks,
                 done, loaderVars, restorerVars, storeVars, otherVars>>

\* There is room in chRestore; more chunks are to come.
PassChunk ==
  /\ call = "send"
  /\ Len(ids[session]) < ChunkIDBuffer
  /\ chunkIndex + 1 < Chunks
  /\ ids' = [ids EXCEPT ![session] = Append(@, chunkIndex + 1)]
  /\ chunkIndex' = chunkIndex + 1
  /\ call' = "none"
  /\ UNCHANGED <<operation, session, sessions, completed, height, idsClosed, chunks,
                 done, loaderVars, restorerVars, storeVars, otherVars>>

\* It was the last one: chRestore is closed and the record saved, or not.
PassLastChunk ==
  /\ call = "send"
  /\ Len(ids[session]) < ChunkIDBuffer
  /\ chunkIndex + 1 = Chunks
  /\ ids' = [ids EXCEPT ![session] = Append(@, Chunks)]
  /\ idsClosed' = [idsClosed EXCEPT ![session] = TRUE]
  /\ chunkIndex' = Chunks
  /\ \/ /\ records' = records \cup {height[session]}
        /\ call' = "wait"
     \/ /\ "record" \in faults
        /\ call' = "none"
        /\ UNCHANGED records
  /\ UNCHANGED <<operation, session, sessions, completed, height, chunks, done,
                 loaderVars, restorerVars, saving, files, otherVars>>

\* The restorer's result has arrived.
RestoreReturns ==
  /\ call = "wait"
  /\ done[session] # "empty"
  /\ completed' = IF done[session] = "ok" THEN completed \cup {session} ELSE completed
  /\ call' = "none"
  /\ EndLocked
  /\ UNCHANGED <<sessions, height, ids, chunks, done, loaderVars, restorerVars,
                 storeVars, otherVars>>

------------------------------------------------------------------------------
(* loadChunkStream *)

\* The loader opens the file of the next chunk.
LoadChunk(s) ==
  /\ loader[s] = "run"
  /\ held[s] = 0
  /\ ids[s] # <<>>
  /\ ids' = [ids EXCEPT ![s] = Tail(@)]
  /\ \/ /\ files[height[s]][Head(ids[s])] # "none"
        /\ held' = [held EXCEPT ![s] = Head(ids[s])]
        /\ UNCHANGED loader
     \/ /\ "load" \in faults \/ files[height[s]][Head(ids[s])] = "none"
        /\ loader' = [loader EXCEPT ![s] = "end"]
        /\ UNCHANGED held
  /\ UNCHANGED <<managerVars, height, idsClosed, chunks, done, restorerVars, storeVars,
                 otherVars>>

SendChunk(s) ==
  /\ held[s] # 0
  /\ Len(chunks[s]) < ChunkBuffer
  /\ chunks' = [chunks EXCEPT ![s] = Append(@, held[s])]
  /\ held' = [held EXCEPT ![s] = 0]
  /\ UNCHANGED <<managerVars, height, ids, idsClosed, done, loader, restorerVars,
                 storeVars, otherVars>>

\* There are no chunks any more.
EndLoader(s) ==
  /\ loader[s] = "run"
  /\ held[s] = 0
  /\ ids[s] = <<>>
  /\ idsClosed[s]
  /\ loader' = [loader EXCEPT ![s] = "end"]
  /\ UNCHANGED <<managerVars, height, channelVars, held, restorerVars, storeVars, otherVars>>

------------------------------------------------------------------------------
(* doRestoreSnapshot *)

\* It returns: what is sent on chDone.
Return(s, result) ==
  /\ restorer' = [restorer EXCEPT ![s] = "end"]
  /\ done' = [done EXCEPT ![s] = result]

\* It will return, once the deferred Close has read the channel to its end.
Close(s, result) ==
  /\ restorer' = [restorer EXCEPT ![s] = "close"]
  /\ outcome' = [outcome EXCEPT ![s] = result]

TakeChunk(s) ==
  /\ chunks[s] # <<>>
  /\ chunks' = [chunks EXCEPT ![s] = Tail(@)]

NoMoreChunks(s) == chunks[s] = <<>> /\ loader[s] = "end"

\* The directory, or NewStreamReader, which reads the first chunk, fails:
\* nobody reads the channel from then on.
OpenFails(s) ==
  /\ restorer[s] = "start"
  /\ \/ "mkdir" \in faults /\ UNCHANGED chunks
     \/ "header" \in faults /\ TakeChunk(s)
     \/ NoMoreChunks(s) /\ UNCHANGED chunks
  /\ Return(s, "err")
  /\ UNCHANGED <<managerVars, height, ids, idsClosed, loaderVars, applied, extended,
                 outcome, storeVars, otherVars>>

\* The next chunk is applied; the multistore flushes its metadata and loads the
\* version after the last.
ApplyChunk(s) ==
  /\ restorer[s] \in {"start", "apply"}
  /\ TakeChunk(s)
  /\ applied' = [applied EXCEPT ![s] = Append(@, Head(chunks[s]))]
  /\ restorer' = [restorer EXCEPT ![s] = IF Head(chunks[s]) = Chunks THEN "extend" ELSE "apply"]
  /\ UNCHANGED <<managerVars, height, ids, idsClosed, done, loaderVars, extended, outcome,
                 storeVars, otherVars>>

\* A bug that TLC must find: the end of the channel is taken for the end of the
\* stream.
ApplyFailsQuietly(s) ==
  /\ restorer[s] = "apply"
  /\ "apply" \in faults \/ NoMoreChunks(s)
  /\ Close(s, IF NoMoreChunks(s) THEN "ok" ELSE "err")
  /\ UNCHANGED <<managerVars, height, channelVars, loaderVars, applied, extended,
                 storeVars, otherVars>>

\* Data that cannot be applied, or a stream that ends too early.
ApplyFails(s) ==
  /\ restorer[s] = "apply"
  /\ "apply" \in faults \/ NoMoreChunks(s)
  /\ Close(s, "err")
  /\ UNCHANGED <<managerVars, height, channelVars, loaderVars, applied, extended,
                 storeVars, otherVars>>

RestoreExtension(s) ==
  /\ restorer[s] = "extend"
  /\ extended[s] < Extensions
  /\ extended' = [extended EXCEPT ![s] = @ + 1]
  /\ UNCHANGED <<managerVars, height, channelVars, loaderVars, restorer, applied, outcome,
                 storeVars, otherVars>>

ExtensionFails(s) ==
  /\ "extension" \in faults
  /\ restorer[s] = "extend"
  /\ extended[s] < Extensions
  /\ Close(s, "err")
  /\ UNCHANGED <<managerVars, height, channelVars, loaderVars, applied, extended,
                 storeVars, otherVars>>

\* An extension that does not exhaust its payloads: Wrapf of the error of
\* RestoreExtension, which is nil.
ExtensionNotExhausted(s) ==
  /\ "partial" \in faults
  /\ restorer[s] = "extend"
  /\ extended[s] < Extensions
  /\ Close(s, "ok")
  /\ UNCHANGED <<managerVars, height, channelVars, loaderVars, applied, extended,
                 storeVars, otherVars>>

EndOfStream(s) ==
  /\ restorer[s] = "extend"
  /\ extended[s] = Extensions
  /\ Close(s, "ok")
  /\ UNCHANGED <<managerVars, height, channelVars, loaderVars, applied, extended,
                 storeVars, otherVars>>

\* ChunkReader.Close reads what is left until the loader closes the channel.
DrainChunk(s) ==
  /\ restorer[s] = "close"
  /\ TakeChunk(s)
  /\ UNCHANGED <<managerVars, height, ids, idsClosed, done, loaderVars, restorerVars,
                 storeVars, otherVars>>

EndRestorer(s) ==
  /\ restorer[s] = "close"
  /\ NoMoreChunks(s)
  /\ Return(s, outcome[s])
  /\ UNCHANGED <<managerVars, height, ids, idsClosed, chunks, loaderVars, applied,
                 extended, outcome, storeVars, otherVars>>

------------------------------------------------------------------------------
(* RestoreLocalSnapshot *)

\* Load reads the record, before the mutex is taken.
LoadLocal(h) ==
  /\ local.stage = "none"
  /\ h \in records
  /\ local' = [height |-> h, stage |-> "loaded", read |-> 0]
  /\ UNCHANGED <<managerVars, height, channelVars, loaderVars, restorerVars, storeVars,
                 creating, pruning, environment>>

\* Another operation is in progress: an error.
BeginLocalFails ==
  /\ local.stage = "loaded"
  /\ Unlocked
  /\ operation # "none"
  /\ local' = NoLocal
  /\ UNCHANGED <<managerVars, height, channelVars, loaderVars, restorerVars, storeVars,
                 creating, pruning, environment>>

BeginLocal ==
  /\ local.stage = "loaded"
  /\ Unlocked
  /\ operation = "none"
  /\ operation' = "restore"
  /\ local' = [local EXCEPT !.stage = "restoring"]
  /\ UNCHANGED <<session, chunkIndex, call, sessions, completed, height, channelVars,
                 loaderVars, restorerVars, storeVars, creating, pruning, environment>>

ReadLocalChunk ==
  /\ local.stage = "restoring"
  /\ local.read < Chunks
  /\ files[local.height][local.read + 1] = "whole"
  /\ local' = [local EXCEPT !.read = @ + 1]
  /\ UNCHANGED <<managerVars, height, channelVars, loaderVars, restorerVars, storeVars,
                 creating, pruning, environment>>

\* All is restored, or a chunk file is not there or not whole, or some data
\* cannot be applied; the deferred endLocked.
EndLocal ==
  /\ local.stage = "restoring"
  /\ \/ local.read = Chunks
     \/ local.read < Chunks /\ files[local.height][local.read + 1] # "whole"
     \/ faults \cap {"load", "header", "apply"} # {}
  /\ local' = NoLocal
  /\ EndLocked
  /\ UNCHANGED <<call, sessions, completed, height, ids, chunks, done, loaderVars,
                 restorerVars, storeVars, creating, pruning, environment>>

------------------------------------------------------------------------------
(* Create and Prune *)

\* Create begins, there is no snapshot as high, and Save marks the height.
BeginCreate(h) ==
  /\ Unlocked
  /\ operation = "none"
  /\ \A g \in records : g < h
  /\ h \notin saving
  /\ operation' = "snapshot"
  /\ creating' = [height |-> h, saved |-> 0]
  /\ saving' = saving \cup {h}
  /\ UNCHANGED <<session, chunkIndex, call, sessions, completed, height, channelVars,
                 loaderVars, restorerVars, files, records, local, pruning, environment>>

SaveChunk ==
  /\ operation = "snapshot"
  /\ creating.saved < Chunks
  /\ files' = [files EXCEPT ![creating.height][creating.saved + 1] = "whole"]
  /\ creating' = [creating EXCEPT !.saved = @ + 1]
  /\ UNCHANGED <<managerVars, height, channelVars, loaderVars, restorerVars, saving,
                 records, local, pruning, environment>>

\* Save and Create return, with the record or with an error and the chunks
\* saved so far.
EndCreate ==
  /\ operation = "snapshot"
  /\ \/ /\ creating.saved = Chunks
        /\ records' = records \cup {creating.height}
        /\ UNCHANGED files
     \/ /\ faults \cap {"mkdir", "record", "apply"} # {}
        /\ UNCHANGED <<files, records>>
     \/ /\ "write" \in faults
        /\ creating.saved < Chunks
        /\ files' = [files EXCEPT ![creating.height][creating.saved + 1] = "torn"]
        /\ UNCHANGED records
  /\ saving' = saving \ {creating.height}
  /\ creating' = NoCreate
  /\ EndLocked
  /\ UNCHANGED <<call, sessions, completed, height, ids, chunks, done, loaderVars,
                 restorerVars, local, pruning, environment>>

BeginPrune ==
  /\ Unlocked
  /\ operation = "none"
  /\ operation' = "prune"
  /\ UNCHANGED <<session, chunkIndex, call, sessions, completed, height, channelVars,
                 loaderVars, restorerVars, storeVars, otherVars>>

\* A bug that TLC must find: the files go before the record.
DeleteFilesFirst(h) ==
  /\ operation = "prune"
  /\ h \in records
  /\ \E g \in records : g > h
  /\ IF files[h] = NoFiles THEN records' = records \ {h} /\ UNCHANGED files
     ELSE files' = [files EXCEPT ![h] = NoFiles] /\ UNCHANGED records
  /\ UNCHANGED <<managerVars, height, channelVars, loaderVars, restorerVars, saving,
                 pruning, local, creating, environment>>

\* Delete of a snapshot that is not the most recent: first the record.
DeleteRecord(h) ==
  /\ operation = "prune"
  /\ pruning = 0
  /\ h \in records
  /\ \E g \in records : g > h
  /\ h \notin saving
  /\ records' = records \ {h}
  /\ pruning' = h
  /\ UNCHANGED <<managerVars, height, channelVars, loaderVars, restorerVars, saving,
                 files, local, creating, environment>>

\* Then the chunk files.
RemoveFiles ==
  /\ pruning # 0
  /\ files' = [files EXCEPT ![pruning] = NoFiles]
  /\ pruning' = 0
  /\ UNCHANGED <<managerVars, height, channelVars, loaderVars, restorerVars, saving,
                 records, local, creating, environment>>

\* All are deleted, or one could not be.
EndPrune ==
  /\ operation = "prune"
  /\ pruning' = 0
  /\ EndLocked
  /\ UNCHANGED <<call, sessions, completed, height, ids, chunks, done, loaderVars,
                 restorerVars, storeVars, local, creating, environment>>

------------------------------------------------------------------------------

\* The node stops and starts again; files and records are on disk.
Crash ==
  /\ crashes < MaxCrashes
  /\ crashes' = crashes + 1
  /\ operation' = "none" /\ session' = NoSession /\ chunkIndex' = 0
  /\ call' = "none" /\ sessions' = 0 /\ completed' = {}
  /\ height' = Each(0)
  /\ ids' = Each(<<>>) /\ idsClosed' = Each(FALSE) /\ chunks' = Each(<<>>)
  /\ done' = Each("empty")
  /\ loader' = Each("none") /\ held' = Each(0)
  /\ restorer' = Each("none") /\ applied' = Each(<<>>) /\ extended' = Each(0)
  /\ outcome' = Each("none")
  /\ saving' = {}
  /\ local' = NoLocal /\ creating' = NoCreate /\ pruning' = 0
  /\ UNCHANGED <<files, records, faults>>

Restoring ==
  \/ RestoreEnded
  \/ HashMismatch
  \/ SaveChunkContentFails
  \/ RestoreChunk
  \/ PassChunk
  \/ PassLastChunk
  \/ RestoreReturns

Loader(s) == LoadChunk(s) \/ SendChunk(s) \/ EndLoader(s)

Restorer(s) ==
  \/ OpenFails(s)
  \/ ApplyChunk(s)
  \/ ApplyFails(s)
  \/ RestoreExtension(s)
  \/ ExtensionFails(s)
  \/ ExtensionNotExhausted(s)
  \/ EndOfStream(s)
  \/ DrainChunk(s)
  \/ EndRestorer(s)

Local == BeginLocalFails \/ BeginLocal \/ ReadLocalChunk \/ EndLocal

Taking == SaveChunk \/ EndCreate

Pruning == (\E h \in Heights : DeleteRecord(h)) \/ RemoveFiles \/ EndPrune

Next ==
  \/ \E h \in Heights : Restore(h) \/ LoadLocal(h) \/ BeginCreate(h)
  \/ RestoreFails
  \/ Restoring
  \/ \E s \in Session : Loader(s) \/ Restorer(s)
  \/ Local
  \/ Taking
  \/ BeginPrune
  \/ Pruning
  \/ Crash

Spec == Init /\ [][Next]_vars

\* Goroutines that can go on do, a call that has been made goes on, and the
\* chunks that are wanted are given in the end ("Chunks must be given until the
\* restore is complete").
Feed == RestoreEnded \/ RestoreChunk

FairSpec ==
  /\ Spec
  /\ WF_vars(Feed)
  /\ WF_vars(PassChunk \/ PassLastChunk \/ RestoreReturns)
  /\ \A s \in Session : WF_vars(Loader(s)) /\ WF_vars(Restorer(s))
  /\ WF_vars(Local)
  /\ WF_vars(Taking)
  /\ WF_vars(EndPrune)

------------------------------------------------------------------------------
(* Properties *)

\* The number of chunks in a channel, or of those a restorer has read.
Size(seq) == Len(seq)

ManagerTypeOK ==
  /\ operation \in {"none", "snapshot", "prune", "restore"}
  /\ session \in Session \cup {NoSession}
  /\ chunkIndex \in 0 .. Chunks
  /\ call \in {"none", "send", "wait"}
  /\ sessions \in 0 .. MaxSessions
  /\ completed \subseteq Session
  /\ local \in [height : Heights \cup {0}, stage : {"none", "loaded", "restoring"}, read : 0 .. Chunks]

StoreTypeOK ==
  /\ creating \in [height : Heights \cup {0}, saved : 0 .. Chunks]
  /\ pruning \in Heights \cup {0}
  /\ saving \subseteq Heights
  /\ files \in [Heights -> [Index -> {"none", "torn", "whole"}]]
  /\ records \subseteq Heights
  /\ crashes \in 0 .. MaxCrashes
  /\ faults \subseteq Fault

ChannelTypeOK ==
  /\ height \in [Session -> Heights \cup {0}]
  /\ ids \in [Session -> Seq(Index)]
  /\ chunks \in [Session -> Seq(Index)]
  /\ \A s \in Session : Size(ids[s]) <= ChunkIDBuffer /\ Size(chunks[s]) <= ChunkBuffer
  /\ idsClosed \in [Session -> BOOLEAN]
  /\ done \in [Session -> {"empty", "ok", "err"}]

GoroutineTypeOK ==
  /\ loader \in [Session -> {"none", "run", "end"}]
  /\ held \in [Session -> 0 .. Chunks]
  /\ restorer \in [Session -> {"none", "start", "apply", "extend", "close", "end"}]
  /\ applied \in [Session -> Seq(Index)]
  /\ extended \in [Session -> 0 .. Extensions]
  /\ outcome \in [Session -> {"none", "ok", "err"}]

\* The types of the variables, the capacities of the channels, and: whatever a
\* restorer has read is the snapshot from its first chunk on.
TypeOK ==
  /\ ManagerTypeOK /\ StoreTypeOK /\ ChannelTypeOK /\ GoroutineTypeOK
  /\ \A s \in Session : applied[s] = SubSeq(AllChunks, 1, Len(applied[s]))

\* "making sure only a single long-running operation is in progress at any given
\* time": a restorer that is changing the multistore is the one of the operation
\* in progress, so that there are never two, nor one beside a snapshot being
\* taken, whatever fails and however late the goroutines of an earlier restore.
OneRestorer ==
  \A s \in Session : restorer[s] \in {"start", "apply", "extend"} =>
    operation = "restore" /\ session = s /\ local.stage # "restoring"

\* "complete: if true, restore completed successfully (not prematurely)": a
\* restore that RestoreChunk reports complete has read every chunk of the
\* snapshot in order and restored every extension.  The exception: an extension
\* that leaves payloads unread, for which doRestoreSnapshot wraps a nil error.
CompleteIsWhole ==
  "partial" \notin faults =>
    \A s \in completed : applied[s] = AllChunks /\ extended[s] = Extensions

\* A snapshot that is listed can be served: its record is written after the
\* chunks, by Save and by RestoreChunk, and deleted before them, so that across
\* crashes and failed deletions no record is without a whole chunk.  The
\* exception: a chunk that cannot be written again when a snapshot the store
\* already has is offered by a peer.
RecordsAreWhole ==
  "write" \notin faults => \A h \in records : \A i \in Index : files[h][i] = "whole"

\* Who holds the manager: only a restore has a session, a RestoreChunk that
\* waits is of that session, and whoever works on the multistore or the snapshot
\* store does so under its own operation.
ManagerInv ==
  /\ session <= sessions
  /\ session # NoSession => operation = "restore" /\ height[session] \in Heights
  /\ call # "none" => session # NoSession
  /\ call = "send" => chunkIndex < Chunks
  /\ local.stage = "restoring" => operation = "restore" /\ session = NoSession
  /\ operation = "snapshot" => creating.height \in Heights
  /\ pruning # 0 => operation = "prune" /\ pruning \notin records

\* The channels and goroutines of a restore to come are as new.
FreshInv ==
  \A s \in Session : s > sessions =>
    /\ ids[s] = <<>> /\ chunks[s] = <<>> /\ applied[s] = <<>> /\ held[s] = 0 /\ extended[s] = 0
    /\ loader[s] = "none" /\ restorer[s] = "none" /\ outcome[s] = "none" /\ done[s] = "empty"

\* The chunks of a sequence are the ones after chunk b, in order.
Counts(seq, b) == \A i \in 1 .. Len(seq) : seq[i] = b + i

\* The last chunk sent to the restorer, and the last one the loader has taken.
Sent(s) == Size(applied[s]) + Size(chunks[s])
Taken(s) == IF held[s] = 0 THEN Sent(s) ELSE Sent(s) + 1

\* No chunk is lost, repeated or overtaken between RestoreChunk, the loader and
\* a restorer that reads: they hold the chunks in order and without a gap.
Flow(s) ==
  /\ Counts(applied[s], 0)
  /\ held[s] # 0 => loader[s] = "run"
  /\ restorer[s] = "extend" => Size(applied[s]) = Chunks
  /\ restorer[s] \notin {"close", "end"} =>
       /\ Counts(chunks[s], Size(applied[s]))
       /\ held[s] \in {0, Sent(s) + 1}
       /\ loader[s] # "end" =>
            /\ Counts(ids[s], Taken(s))
            /\ s = session => chunkIndex = Taken(s) + Size(ids[s])

FlowInv == \A s \in Session : Flow(s)

\* A result is that of a restorer that has ended, and a good one that of a
\* restorer that has come to the end of the stream.
ResultInv ==
  \A s \in Session :
    /\ s \in completed => done[s] = "ok"
    /\ done[s] # "empty" => restorer[s] = "end"
    /\ done[s] = "ok" => outcome[s] = "ok"
    /\ restorer[s] = "close" => outcome[s] # "none"
    /\ outcome[s] = "ok" =>
         /\ restorer[s] \in {"close", "end"}
         /\ "partial" \notin faults => Size(applied[s]) = Chunks /\ extended[s] = Extensions

\* The chunks that Create and RestoreChunk have saved are on disk.
SavedInv ==
  "write" \notin faults =>
    /\ operation = "snapshot" =>
         \A i \in Index : i <= creating.saved => files[creating.height][i] = "whole"
    /\ session # NoSession =>
         \A i \in Index : i <= (IF call = "send" THEN chunkIndex + 1 ELSE chunkIndex) =>
           files[height[session]][i] = "whole"

\* Why the four invariants above hold, whatever RestoreChunk, the goroutines of
\* all restores, Create, Prune and RestoreLocalSnapshot do between each other's
\* steps: it is preserved by every one of them.
RestoreInv ==
  /\ TypeOK /\ ManagerInv /\ FreshInv /\ FlowInv /\ ResultInv /\ SavedInv
  /\ OneRestorer /\ RecordsAreWhole

\* A restore that is fed ends, whether it fails or not, and releases the manager,
\* unless a directory could not be made or the record not be saved: there Restore
\* and RestoreChunk return an error without endLocked.
RestoreEnds ==
  (operation = "restore" /\ faults \cap {"mkdir", "record"} = {}) ~> operation # "restore"

\* No goroutine of a restore is left behind: the loader and the restorer end,
\* unless no directory could be made for the restorer, which then leaves the
\* chunks unread.
GoroutinesEnd ==
  \A s \in Session :
    (loader[s] = "run" /\ "mkdir" \notin faults)
      ~> (loader[s] # "run" /\ restorer[s] \in {"none", "end"})
==============================================================================
