-------------------------- MODULE MultiVersionStore --------------------------
(***************************************************************************)
(* multiversion.Store: the versions that the transactions of a block have  *)
(* written, by key and by transaction index, while the block is executed   *)
(* in parallel (src/multiversion/store.go, data_structures.go).            *)
(*                                                                         *)
(* A key maps to an item, an item holds at most one version per index.     *)
(* The maps are sync.Maps and an item is guarded by its own lock, so one   *)
(* Load, Store, LoadOrStore, Set, Delete, SetEstimate or Remove is one     *)
(* step, and a call that touches several keys is interleaved with the      *)
(* calls made for the other transactions.  The calls made for one index    *)
(* follow one another: they come from the one task that runs it.           *)
(***************************************************************************)
EXTENDS Integers

CONSTANTS
  Keys,        \* keys of the store
  Values,      \* values other than nil
  N,           \* totalTask: the transactions of the block are 0 .. N-1
  Registered,  \* keys that NewKey gave an item before the block ran
  Nil,         \* a nil value: the deletion of a key
  Estimate,    \* the ESTIMATE marker
  Root,        \* the item NewKey creates
  None         \* no version, no item, no key

Tx == 0 .. (N - 1)

\* What an item can hold for an index.
Version == Values \cup {Nil, Estimate}

\* An item is named by the index whose call creates it.
Item == Tx \cup {Root}

ASSUME ConstantsAssumption ==
  /\ N \in Nat
  /\ Registered \subseteq Keys
  /\ Nil \notin Values
  /\ Estimate \notin Values \cup {Nil}
  /\ None \notin Version \cup Item \cup Keys
  /\ Root \notin Tx

VARIABLES
  multiVersionMap,  \* key -> the item it maps to, or None
  items,            \* key, item -> the versions in it, by index
  txWritesetKeys,   \* index -> keys of its writeset (no entry: {})
  pc,               \* where the call made for an index stands
  op,               \* the call: "set", "estimate", "invalidate", or "none"
  writeset,         \* index -> what its last call writes, None where it does not
  todo,             \* index -> keys the loop of the call still has to visit
  cur,              \* index -> key the loop is at, or None
  ref               \* index -> item it has loaded for that key, or None

storeVars == <<multiVersionMap, items, txWritesetKeys>>
callVars == <<pc, op, writeset, todo, cur, ref>>
vars == <<storeVars, callVars>>

WrittenKeys(w) == {k \in Keys : w[k] # None}

EmptyItem == [i \in Tx |-> None]
EmptyWriteset == [k \in Keys |-> None]

Init ==
  /\ multiVersionMap = [k \in Keys |-> IF k \in Registered THEN Root ELSE None]
  /\ items = [k \in Keys |-> [it \in Item |-> EmptyItem]]
  /\ txWritesetKeys = [i \in Tx |-> {}]
  /\ pc = [i \in Tx |-> "idle"]
  /\ op = [i \in Tx |-> "none"]
  /\ writeset = [i \in Tx |-> EmptyWriteset]
  /\ todo = [i \in Tx |-> {}]
  /\ cur = [i \in Tx |-> None]
  /\ ref = [i \in Tx |-> None]

------------------------------------------------------------------------------
(* Reads *)

\* The version of k at index i, through the item the map holds now.
VersionAt(k, i) ==
  IF multiVersionMap[k] = None THEN None ELSE items[k][multiVersionMap[k]][i]

\* The indices below bound that have a version of k.
WritersBefore(bound, k) == {j \in Tx : j < bound /\ VersionAt(k, j) # None}

MaxIndex(S) == CHOOSE j \in S : \A m \in S : m <= j

\* The index whose version of k a reader at index i gets, or None.
GetLatestBeforeIndex(i, k) ==
  LET S == WritersBefore(i, k) IN IF S = {} THEN None ELSE MaxIndex(S)

\* The version WriteLatestToStore writes for k, or None.
GetLatestNonEstimate(k) ==
  LET S == {j \in Tx : VersionAt(k, j) \notin {None, Estimate}}
  IN  IF S = {} THEN None ELSE VersionAt(k, MaxIndex(S))

------------------------------------------------------------------------------
(* SetWriteset, SetEstimatedWriteset and InvalidateWriteset *)

\* removeOldWriteset that removes nothing; that ignores the new writeset.
OldKeysNone(i, w) == {}
OldKeysAll(i, w) == txWritesetKeys[i]

\* What removeOldWriteset must remove of index i: its old keys but for those
\* the new writeset w overwrites.
OldKeys(i, w) == txWritesetKeys[i] \ WrittenKeys(w)

\* Enter SetWriteset or SetEstimatedWriteset: removeOldWriteset takes the old
\* keys out of txWritesetKeys (LoadAndDelete).
Begin(i, o, w) ==
  /\ pc[i] = "idle"
  /\ pc' = [pc EXCEPT ![i] = "remove"]
  /\ op' = [op EXCEPT ![i] = o]
  /\ writeset' = [writeset EXCEPT ![i] = w]
  /\ todo' = [todo EXCEPT ![i] = OldKeys(i, w)]
  /\ txWritesetKeys' = [txWritesetKeys EXCEPT ![i] = {}]
  /\ UNCHANGED <<multiVersionMap, items, cur, ref>>

SetWriteset(i, w) == Begin(i, "set", w)

SetEstimatedWriteset(i, K) ==
  Begin(i, "estimate", [k \in Keys |-> IF k \in K THEN Estimate ELSE None])

\* removeOldWriteset, one key of the old writeset.
Remove(i, k) ==
  /\ pc[i] = "remove"
  /\ k \in todo[i]
  /\ items' = IF multiVersionMap[k] = None THEN items
              ELSE [items EXCEPT ![k][multiVersionMap[k]][i] = None]
  /\ todo' = [todo EXCEPT ![i] = @ \ {k}]
  /\ UNCHANGED <<multiVersionMap, txWritesetKeys, pc, op, writeset, cur, ref>>

RemoveDone(i) ==
  /\ pc[i] = "remove"
  /\ todo[i] = {}
  /\ pc' = [pc EXCEPT ![i] = "write"]
  /\ todo' = [todo EXCEPT ![i] = WrittenKeys(writeset[i])]
  /\ UNCHANGED <<storeVars, op, writeset, cur, ref>>

\* InvalidateWriteset that takes the keys out, as removeOldWriteset does.
InvalidateForgetting(i) ==
  /\ pc[i] = "idle"
  /\ pc' = [pc EXCEPT ![i] = "write"]
  /\ op' = [op EXCEPT ![i] = "invalidate"]
  /\ writeset' = [writeset EXCEPT ![i] =
                    [k \in Keys |-> IF k \in txWritesetKeys[i] THEN Estimate ELSE None]]
  /\ todo' = [todo EXCEPT ![i] = txWritesetKeys[i]]
  /\ txWritesetKeys' = [txWritesetKeys EXCEPT ![i] = {}]
  /\ UNCHANGED <<multiVersionMap, items, cur, ref>>

\* InvalidateWriteset turns the published writeset of i into estimates and
\* leaves txWritesetKeys in place.
InvalidateWriteset(i) ==
  /\ pc[i] = "idle"
  /\ pc' = [pc EXCEPT ![i] = "write"]
  /\ op' = [op EXCEPT ![i] = "invalidate"]
  /\ writeset' = [writeset EXCEPT ![i] =
                    [k \in Keys |-> IF k \in txWritesetKeys[i] THEN Estimate ELSE None]]
  /\ todo' = [todo EXCEPT ![i] = txWritesetKeys[i]]
  /\ UNCHANGED <<storeVars, cur, ref>>

\* Loading that keeps no item on a hit.
LoadNothing(i, k) ==
  /\ pc[i] = "write"
  /\ k \in todo[i]
  /\ cur' = [cur EXCEPT ![i] = k]
  /\ pc' = [pc EXCEPT ![i] = IF multiVersionMap[k] # None THEN "put" ELSE "create"]
  /\ UNCHANGED <<storeVars, op, writeset, todo, ref>>

\* The loops load the item of the next key.  On a miss SetWriteset goes on to
\* create the item in a later step; the other two use LoadOrStore.
Load(i, k) ==
  /\ pc[i] = "write"
  /\ k \in todo[i]
  /\ cur' = [cur EXCEPT ![i] = k]
  /\ \/ /\ multiVersionMap[k] # None
        /\ pc' = [pc EXCEPT ![i] = "put"]
        /\ ref' = [ref EXCEPT ![i] = multiVersionMap[k]]
        /\ UNCHANGED multiVersionMap
     \/ /\ multiVersionMap[k] = None /\ op[i] = "set"
        /\ pc' = [pc EXCEPT ![i] = "create"]
        /\ UNCHANGED <<multiVersionMap, ref>>
     \/ /\ multiVersionMap[k] = None /\ op[i] # "set"
        /\ pc' = [pc EXCEPT ![i] = "put"]
        /\ ref' = [ref EXCEPT ![i] = i]
        /\ multiVersionMap' = [multiVersionMap EXCEPT ![k] = i]
  /\ UNCHANGED <<items, txWritesetKeys, op, writeset, todo>>

\* SetWriteset stores a new item for a key it did not find.
Create(i) ==
  /\ pc[i] = "create"
  /\ multiVersionMap' = [multiVersionMap EXCEPT ![cur[i]] = i]
  /\ items' = [items EXCEPT ![cur[i]][i] = EmptyItem]
  /\ ref' = [ref EXCEPT ![i] = i]
  /\ pc' = [pc EXCEPT ![i] = "put"]
  /\ UNCHANGED <<txWritesetKeys, op, writeset, todo, cur>>

\* InvalidateWriteset that deletes where it should set an estimate.
PutDeleting(i) ==
  /\ pc[i] = "put"
  /\ items' = [items EXCEPT ![cur[i]][ref[i]][i] =
                 IF op[i] = "invalidate" THEN Nil ELSE writeset[i][cur[i]]]
  /\ todo' = [todo EXCEPT ![i] = @ \ {cur[i]}]
  /\ pc' = [pc EXCEPT ![i] = "write"]
  /\ cur' = [cur EXCEPT ![i] = None]
  /\ ref' = [ref EXCEPT ![i] = None]
  /\ UNCHANGED <<multiVersionMap, txWritesetKeys, op, writeset>>

\* Set, Delete or SetEstimate on the item that was loaded.
Put(i) ==
  /\ pc[i] = "put"
  /\ items' = [items EXCEPT ![cur[i]][ref[i]][i] = writeset[i][cur[i]]]
  /\ todo' = [todo EXCEPT ![i] = @ \ {cur[i]}]
  /\ pc' = [pc EXCEPT ![i] = "write"]
  /\ cur' = [cur EXCEPT ![i] = None]
  /\ ref' = [ref EXCEPT ![i] = None]
  /\ UNCHANGED <<multiVersionMap, txWritesetKeys, op, writeset>>

\* The loop is over: SetWriteset and SetEstimatedWriteset store the keys, and
\* InvalidateWriteset left them there.
Publish(i) ==
  /\ pc[i] = "write"
  /\ todo[i] = {}
  /\ pc' = [pc EXCEPT ![i] = "idle"]
  /\ op' = [op EXCEPT ![i] = "none"]
  /\ txWritesetKeys' = IF op[i] = "invalidate" THEN txWritesetKeys
                       ELSE [txWritesetKeys EXCEPT ![i] = WrittenKeys(writeset[i])]
  /\ UNCHANGED <<multiVersionMap, items, writeset, todo, cur, ref>>

\* A call is entered.
Enter(i) ==
  \/ \E w \in [Keys -> Values \cup {Nil, None}] : SetWriteset(i, w)
  \/ \E K \in SUBSET Keys : SetEstimatedWriteset(i, K)
  \/ InvalidateWriteset(i)

\* A call goes on.
Proceed(i) ==
  \/ \E k \in Keys : Remove(i, k)
  \/ RemoveDone(i)
  \/ \E k \in Keys : Load(i, k)
  \/ Create(i)
  \/ Put(i)
  \/ Publish(i)

Next == \E i \in Tx : Enter(i) \/ Proceed(i)

Spec == Init /\ [][Next]_vars

------------------------------------------------------------------------------
(* Properties *)

TypeOK ==
  /\ multiVersionMap \in [Keys -> Item \cup {None}]
  /\ items \in [Keys -> [Item -> [Tx -> Version \cup {None}]]]
  /\ txWritesetKeys \in [Tx -> SUBSET Keys]
  /\ pc \in [Tx -> {"idle", "remove", "write", "create", "put"}]
  /\ op \in [Tx -> {"none", "set", "estimate", "invalidate"}]
  /\ writeset \in [Tx -> [Keys -> Version \cup {None}]]
  /\ todo \in [Tx -> SUBSET Keys]
  /\ cur \in [Tx -> Keys \cup {None}]
  /\ ref \in [Tx -> Item \cup {None}]
  /\ \A i \in Tx :
       /\ pc[i] \in {"create", "put"} => cur[i] # None
       /\ pc[i] = "put" => ref[i] # None

\* What the store must show for the keys K once the calls made for an index
\* have returned: exactly the writeset of the last of them, in the versions
\* and in the keys, and nothing of earlier incarnations.
ShowsLastWriteset(K) ==
  \A i \in Tx : pc[i] = "idle" =>
    /\ \A k \in K : VersionAt(k, i) = writeset[i][k]
    /\ txWritesetKeys[i] = WrittenKeys(writeset[i])

\* SetWriteset, SetEstimatedWriteset and InvalidateWriteset publish exactly
\* their writeset under any interleaving with the calls of other indices, for
\* every key NewKey registered.
WritesetPublished == ShowsLastWriteset(Registered)

\* Where the call made for i stands: the keys it has still to remove or to
\* write (todo), and the item it holds, which for a registered key is the one
\* the map holds.
CallInv(i) ==
  /\ pc[i] = "idle" <=> op[i] = "none"
  /\ pc[i] = "idle" => todo[i] = {}
  /\ pc[i] = "remove" => op[i] # "invalidate"
  /\ pc[i] = "remove" => todo[i] \cap WrittenKeys(writeset[i]) = {}
  /\ pc[i] # "remove" => todo[i] \subseteq WrittenKeys(writeset[i])
  /\ pc[i] \in {"create", "put"} => cur[i] \in todo[i]
  /\ pc[i] = "create" => cur[i] \notin Registered
  /\ pc[i] = "put" /\ cur[i] \in Registered => ref[i] = Root
  /\ op[i] = "invalidate" => \A k \in Keys : writeset[i][k] \in {Estimate, None}

\* What the store shows of i meanwhile: while old keys are removed, only those
\* still to go and those the new writeset overwrites; then, the new version of
\* every key the loop has passed.
ShownInv(i) ==
  /\ txWritesetKeys[i] = IF op[i] \in {"none", "invalidate"}
                          THEN WrittenKeys(writeset[i]) ELSE {}
  /\ \A k \in Registered :
       IF pc[i] = "remove"
       THEN items[k][Root][i] # None => k \in todo[i] \/ writeset[i][k] # None
       ELSE k \notin todo[i] => items[k][Root][i] = writeset[i][k]

\* Why WritesetPublished holds, inductively.
PublishInv ==
  /\ \A k \in Registered : multiVersionMap[k] = Root
  /\ \A i \in Tx : CallInv(i) /\ ShownInv(i)

\* "SetWriteset sets a writeset for a transaction index, and also writes all
\* of the multiversion items in the writeset to the multiversion store": the
\* same, for every key.
AllWritesPublished == ShowsLastWriteset(Keys)

\* A version of a registered key that the writeset being published writes
\* again never disappears in between ("we don't need to remove this key
\* because it will be overwritten anyways"): no reader at a later index falls
\* through to an older version while a transaction is re-executed.
NoGapStep ==
  \A k \in Registered, i \in Tx :
    VersionAt(k, i) # None /\ writeset'[i][k] # None => VersionAt(k, i)' # None
NoGap == [][NoGapStep]_vars

\* An estimate stays until the transaction publishes again: a version of a
\* registered key that is an ESTIMATE is changed only by a later SetWriteset
\* or by the removal of a key that later writeset does not have.
EstimateStep ==
  \A k \in Registered, i \in Tx :
    VersionAt(k, i) = Estimate /\ VersionAt(k, i)' # Estimate =>
      /\ pc[i] # "idle"
      /\ op[i] # "invalidate"
      /\ writeset[i][k] # Estimate
EstimatesStay == [][EstimateStep]_vars
==============================================================================
