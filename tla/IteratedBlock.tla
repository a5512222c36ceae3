---------------------------- MODULE IteratedBlock ----------------------------
(***************************************************************************)
(* ParallelBlock with transactions that iterate over ranges of keys        *)
(* (src/multiversion/mvkv.go, mergeiterator.go, memiterator.go and         *)
(* trackediterator.go) and the validation of what they iterated over       *)
(* (store.go).  A key that appears in or disappears from a range after it  *)
(* was iterated over is what a readset cannot show.                        *)
(*                                                                         *)
(* An iterator is two cursors over the range, one over the keys of the     *)
(* parent and one over the keys collected when it was created; the values  *)
(* of the latter are read while it moves.  Transactions keep the contract  *)
(* of types.KVStore: no write to a range while it is iterated over.        *)
(***************************************************************************)
EXTENDS ParallelBlock

SX == INSTANCE SequencesExt

VARIABLES
  it,             \* index -> the iterator it has open, or None
  iterateset,     \* index -> the trackers of its running incarnation
  twice,          \* index -> keys its readset has more than one value for
  txIterateSets,  \* index -> trackers of the last incarnation that finished
  txTwice         \* index -> the same of the readset stored in txReadSets

iterVars == <<it, iterateset, twice, txIterateSets, txTwice>>
everything == <<allVars, iterVars>>

IterInit ==
  /\ BlockInit
  /\ it = [i \in Tx |-> None]
  /\ iterateset = [i \in Tx |-> <<>>]
  /\ twice = [i \in Tx |-> {}]
  /\ txIterateSets = [i \in Tx |-> <<>>]
  /\ txTwice = [i \in Tx |-> {}]

------------------------------------------------------------------------------
(* Iteration *)

Iterates(i) ==
  /\ Running(i)
  /\ acc[i] \in Ins(i).when /\ Ins(i).op \in {"iterate", "deleteAll"}

NewIterationTracker(i) ==
  [keys |-> Ins(i).keys, writeset |-> Writeset[i], iteratedKeys |-> {}, earlyStopKey |-> None]

\* The keys of the incarnation's own writes and reads are among those of the
\* cache iterator; those of the other transactions are collected next.
NewIterator(i) ==
  /\ Iterates(i) /\ it[i] = None
  /\ it' = [it EXCEPT ![i] = [at |-> 0, seen |-> 0, parent |-> <<>>, cache |-> <<>>,
                              items |-> WrittenKeys(Writeset[i]) \cup WrittenKeys(readset[i])]]
  /\ iterateset' = [iterateset EXCEPT ![i] = Append(@, NewIterationTracker(i))]
  /\ UNCHANGED <<allVars, twice, txIterateSets, txTwice>>

\* CollectIteratorItems, the writeset keys of one earlier transaction.
CollectIteratorItems(i) ==
  /\ Iterates(i) /\ it[i] # None /\ it[i].at < i
  /\ it' = [it EXCEPT ![i].items = @ \cup txWritesetKeys[it[i].at], ![i].at = @ + 1]
  /\ UNCHANGED <<allVars, iterateset, twice, txIterateSets, txTwice>>

\* NewMVSMergeIterator over the keys in the range.
NewMVSMergeIterator(i) ==
  /\ Iterates(i) /\ it[i] # None /\ it[i].at = i
  /\ it' = [it EXCEPT
       ![i].cache = SelectSeq(Ins(i).keys, LAMBDA k : k \in it[i].items),
       ![i].parent = SelectSeq(Ins(i).keys, LAMBDA k : parentStore[k] # Nil),
       ![i].at = N]
  /\ UNCHANGED <<allVars, iterateset, twice, txIterateSets, txTwice>>

Open(i) == Iterates(i) /\ it[i] # None /\ it[i].at = N

AtEnd(i) == it[i].cache = <<>> /\ it[i].parent = <<>>

\* compare: the place of a key in the range, ascending or descending.
Place(i, k) == CHOOSE n \in DOMAIN Ins(i).keys : Ins(i).keys[n] = k

\* The cache shadows the parent where both have the key.
FromCache(i) ==
  /\ it[i].cache # <<>>
  /\ it[i].parent # <<>> => Place(i, Head(it[i].cache)) <= Place(i, Head(it[i].parent))

Key(i) == IF FromCache(i) THEN Head(it[i].cache) ELSE Head(it[i].parent)

Past(cursor, k) == IF cursor # <<>> /\ Head(cursor) = k THEN Tail(cursor) ELSE cursor

Moved(i) == [it[i] EXCEPT !.cache = Past(@, Key(i)), !.parent = Past(@, Key(i))]

Skipped(i) == Moved(i)

More(i) == Open(i) /\ ~AtEnd(i) /\ it[i].seen < Ins(i).stop

\* skipUntilExistsOrInvalid and skipCacheDeletes, one item: the value of a
\* cache item is that of Get, and a deleted key is skipped in both.
SkipDeleted(i) ==
  /\ More(i) /\ FromCache(i)
  /\ ~GetAborts(i, Key(i)) /\ GetValue(i, Key(i)) = Nil
  /\ UpdateReadSet(i, Key(i))
  /\ it' = [it EXCEPT ![i] = Skipped(i)]
  /\ UNCHANGED <<vars, Writeset, program, status, ip, acc, dep, committed, parentStore,
                 txReadSets, iterateset, twice, txIterateSets, txTwice>>

AddKey(t, k) == [t EXCEPT !.iteratedKeys = @ \cup {k}, !.earlyStopKey = k]

Tracked(i, t) == iterateset' = [iterateset EXCEPT ![i] = Append(SX!Front(@), t)]

\* Valid, Key and Value on an item of the cache, then Next.
VisitCached(i) ==
  /\ More(i) /\ FromCache(i)
  /\ ~GetAborts(i, Key(i)) /\ GetValue(i, Key(i)) # Nil
  /\ UpdateReadSet(i, Key(i))
  /\ acc' = IF Ins(i).op = "iterate" THEN [acc EXCEPT ![i] = GetValue(i, Key(i))] ELSE acc
  /\ Tracked(i, AddKey(SX!Last(iterateset[i]), Key(i)))
  /\ it' = [it EXCEPT ![i] = [Moved(i) EXCEPT !.seen = @ + 1]]
  /\ UNCHANGED <<vars, Writeset, program, status, ip, dep, committed, parentStore,
                 txReadSets, twice, txIterateSets, txTwice>>

\* The same on an item of the parent.  Value adds what it reads to the readset,
\* which may have got another value for the key since the iterator was created.
VisitParent(i) ==
  LET k == Key(i)
      reads == Ins(i).op = "iterate"
  IN /\ More(i) /\ ~FromCache(i)
     /\ acc' = IF reads THEN [acc EXCEPT ![i] = parentStore[k]] ELSE acc
     /\ readset' = IF reads /\ readset[i][k] = None
                   THEN [readset EXCEPT ![i][k] = parentStore[k]] ELSE readset
     /\ twice' = IF reads /\ readset[i][k] \notin {None, parentStore[k]}
                 THEN [twice EXCEPT ![i] = @ \cup {k}] ELSE twice
     /\ Tracked(i, AddKey(SX!Last(iterateset[i]), k))
     /\ it' = [it EXCEPT ![i] = [Moved(i) EXCEPT !.seen = @ + 1]]
     /\ UNCHANGED <<vars, Writeset, program, status, ip, dep, committed, parentStore,
                    txReadSets, txIterateSets, txTwice>>

\* A Valid that does not forget the early stop at the end of the range.
StopKeyKept(t) == t

\* Valid at the end of the range: nothing stopped the iteration early.
SetEarlyStopKey(t) == [t EXCEPT !.earlyStopKey = None]

\* The transaction leaves the loop, at the end of the range or before it, and
\* goes on: DeleteAll deletes the keys it has gathered, iterate with what it
\* read last.
CloseIterator(i) ==
  /\ Open(i) /\ ~More(i)
  /\ LET t == SX!Last(iterateset[i])
     IN /\ Tracked(i, IF it[i].seen < Ins(i).stop THEN SetEarlyStopKey(t) ELSE t)
        /\ Writeset' = IF Ins(i).op = "iterate" THEN Writeset
                       ELSE [Writeset EXCEPT ![i] = [k \in Keys |->
                               IF k \in t.iteratedKeys THEN Nil ELSE @[k]]]
  /\ acc' = IF Ins(i).op = "iterate" /\ it[i].seen = 0 THEN [acc EXCEPT ![i] = Nil] ELSE acc
  /\ it' = [it EXCEPT ![i] = None]
  /\ Advance(i)
  /\ UNCHANGED <<vars, readset, program, status, dep, committed, parentStore, txReadSets,
                 twice, txIterateSets, txTwice>>

\* A fresh VersionIndexedStore has no trackers.
Forget(i) ==
  /\ it' = [it EXCEPT ![i] = None]
  /\ iterateset' = [iterateset EXCEPT ![i] = <<>>]
  /\ twice' = [twice EXCEPT ![i] = {}]

\* The Get of a cache item panics with an abort.
AbortIteration(i) ==
  /\ More(i) /\ FromCache(i)
  /\ AbortOn(i, Key(i))
  /\ Forget(i)
  /\ UNCHANGED <<txIterateSets, txTwice>>

------------------------------------------------------------------------------
(* Validation *)

\* The keys and values the replay of tracker t at index i meets.
ReplayItems(i, t) ==
  UNION {txWritesetKeys[j] : j \in 0 .. (i - 1)} \cup WrittenKeys(t.writeset)

ReplayValue(i, t, k) ==
  IF t.writeset[k] # None THEN t.writeset[k]
  ELSE IF k \in ReplayItems(i, t) THEN LatestBefore(i, k)
  ELSE parentStore[k]

\* What the merge iterator of validateIterator returns until the early stop.
Replay(i, t) ==
  LET there == SelectSeq(t.keys, LAMBDA k : ReplayValue(i, t, k) # Nil)
      stops == {n \in DOMAIN there : there[n] = t.earlyStopKey}
  IN  IF stops = {} THEN there ELSE SubSeq(there, 1, MaxIndex(stops))

\* validateIterator: an estimate, or not exactly the keys of the iteration.
IsInvalid(i, t) ==
  \/ \E k \in SX!ToSet(Replay(i, t)) : ReplayValue(i, t, k) = Estimate
  \/ SX!ToSet(Replay(i, t)) # t.iteratedKeys

\* checkIteratorAtIndex and, with the keys of two values, checkReadsetAtIndex.
IterValidates(i) ==
  /\ Validates(i)
  /\ txTwice[i] = {}
  /\ \A t \in SX!ToSet(txIterateSets[i]) : ~IsInvalid(i, t)

FindInvalid(i) ==
  /\ ~committed
  /\ status[i] = "executed"
  /\ txTwice[i] # {} \/ \E t \in SX!ToSet(txIterateSets[i]) : IsInvalid(i, t)
  /\ status' = [status EXCEPT ![i] = "invalid"]
  /\ UNCHANGED <<vars, execVars, mvkvVars, program, committed, parentStore, txReadSets, iterVars>>

------------------------------------------------------------------------------
(* The block *)

IterStart(i) == Start(i) /\ Forget(i) /\ UNCHANGED <<txIterateSets, txTwice>>

IterAbort(i) == Abort(i) /\ Forget(i) /\ UNCHANGED <<txIterateSets, txTwice>>

\* WriteToMultiVersionStore stores the trackers, if there are any.
IterFinishWrite(i) ==
  /\ FinishWrite(i)
  /\ txIterateSets' = IF iterateset[i] = <<>> THEN txIterateSets
                      ELSE [txIterateSets EXCEPT ![i] = iterateset[i]]
  /\ txTwice' = IF readset[i] = EmptySet THEN txTwice ELSE [txTwice EXCEPT ![i] = twice[i]]
  /\ Forget(i)

IterRetry(i) ==
  /\ Retry(i)
  /\ txIterateSets' = [txIterateSets EXCEPT ![i] = <<>>]
  /\ txTwice' = [txTwice EXCEPT ![i] = {}]
  /\ UNCHANGED <<it, iterateset, twice>>

IterCommit == Commit /\ (\A i \in Tx : IterValidates(i)) /\ UNCHANGED iterVars

IterStep(i) ==
  \/ IterStart(i) \/ IterAbort(i) \/ IterFinishWrite(i) \/ IterRetry(i)
  \/ (Skip(i) \/ Get(i) \/ Write(i) \/ WriteOut(i) \/ StoreStep(i) \/ FindStale(i)
       \/ Invalidate(i)) /\ UNCHANGED iterVars
  \/ NewIterator(i) \/ CollectIteratorItems(i) \/ NewMVSMergeIterator(i)
  \/ SkipDeleted(i) \/ VisitCached(i) \/ VisitParent(i) \/ CloseIterator(i)
  \/ AbortIteration(i) \/ FindInvalid(i)

IterDone == committed /\ UNCHANGED everything

IterNext == (\E i \in Tx : IterStep(i)) \/ IterCommit \/ IterDone

IterSpec == IterInit /\ [][IterNext]_everything

\* Every task is scheduled, and the block is committed once it validates.
FairIterSpec ==
  /\ IterSpec
  /\ \A i \in Tx : WF_everything(IterStep(i))
  /\ WF_everything(IterCommit)

------------------------------------------------------------------------------
(* Properties *)

IterIsSettled(i) == committed \/ (status[i] = "executed" /\ IterValidates(i))

IterSettled ==
  CHOOSE n \in 0 .. N :
    /\ \A i \in 0 .. (n - 1) : IterIsSettled(i)
    /\ n = N \/ ~IterIsSettled(n)

IterSerial == INSTANCE SerialBlock
  WITH settled <- IterSettled, store <- View(IterSettled), parent <- parentStore

\* Parallel execution with iterators implements serial execution: whatever is
\* inserted in or deleted from a range between an iteration and the validation
\* of its tracker, the validated prefix of the block has left what running its
\* transactions one after the other leaves.
IsSerialWithIterators == IterSerial!Spec
==============================================================================
