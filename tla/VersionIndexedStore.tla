------------------------- MODULE VersionIndexedStore -------------------------
(***************************************************************************)
(* VersionIndexedStore, the store one transaction of a block runs on       *)
(* (src/multiversion/mvkv.go), and the parts of multiversion.Store that    *)
(* validate and write out what the transactions did (store.go).            *)
(*                                                                         *)
(* A readset has one value per key here: Get, the only reader modelled,    *)
(* adds a value only for a key the readset does not have.                  *)
(***************************************************************************)
EXTENDS MultiVersionStore

VARIABLES
  parentStore,  \* key -> value or Nil
  readset,      \* index -> what its running incarnation has read
  Writeset,     \* index -> what its running incarnation has written
  txReadSets    \* index -> readset of the last incarnation that finished

mvkvVars == <<readset, Writeset>>

Read == Values \cup {Nil}
EmptySet == [k \in Keys |-> None]

InitStores(s) ==
  /\ parentStore = s
  /\ readset = [i \in Tx |-> EmptySet]
  /\ Writeset = [i \in Tx |-> EmptySet]
  /\ txReadSets = [i \in Tx |-> EmptySet]

\* NewVersionIndexedStore, one for every incarnation.
NewVersionIndexedStore(i) ==
  /\ readset' = [readset EXCEPT ![i] = EmptySet]
  /\ Writeset' = [Writeset EXCEPT ![i] = EmptySet]

\* The version of k that index i reads, or None for the parent's.
LatestBefore(i, k) ==
  LET j == GetLatestBeforeIndex(i, k) IN IF j = None THEN None ELSE VersionAt(k, j)

\* Get ends in one of four ways: from the incarnation's own writes or reads,
\* from the multiversion store or the parent, or in an abort on an estimate.
Cached(i, k) == Writeset[i][k] # None \/ readset[i][k] # None

CachedValue(i, k) == IF Writeset[i][k] # None THEN Writeset[i][k] ELSE readset[i][k]

FreshValue(i, k) ==
  IF LatestBefore(i, k) = None THEN parentStore[k] ELSE LatestBefore(i, k)

GetValue(i, k) == IF Cached(i, k) THEN CachedValue(i, k) ELSE FreshValue(i, k)

\* A Get that reads estimates like values.
GetAbortsNever(i, k) == FALSE

GetAborts(i, k) == ~Cached(i, k) /\ LatestBefore(i, k) = Estimate

UpdateReadSet(i, k) ==
  readset' = IF Cached(i, k) THEN readset
             ELSE [readset EXCEPT ![i][k] = FreshValue(i, k)]

\* Set, and Delete with v = Nil.
setValue(i, k, v) == Writeset' = [Writeset EXCEPT ![i][k] = v]

WriteToMultiVersionStore(i) == SetWriteset(i, Writeset[i])

WriteEstimatesToMultiVersionStore(i) ==
  SetEstimatedWriteset(i, WrittenKeys(Writeset[i]))

\* A readset that is dropped.
SetReadsetNever(i) == UNCHANGED txReadSets

\* The second half of WriteToMultiVersionStore: a readset that is empty is not
\* stored, and one stored earlier stays.
SetReadset(i) ==
  txReadSets' = IF readset[i] = EmptySet THEN txReadSets
                ELSE [txReadSets EXCEPT ![i] = readset[i]]

ClearReadset(i) == txReadSets' = [txReadSets EXCEPT ![i] = EmptySet]

\* A check that takes a deletion for a conflict, whatever was read.
StaleIfDeleted(i, k) ==
  /\ txReadSets[i][k] # None
  /\ LatestBefore(i, k) # Estimate
  /\ FreshValue(i, k) # txReadSets[i][k] \/ LatestBefore(i, k) = Nil

\* checkReadsetAtIndex, for one key: what the transaction read is not what it
\* would read now; it would meet an estimate, which only makes a conflict.
Stale(i, k) ==
  /\ txReadSets[i][k] # None
  /\ LatestBefore(i, k) # Estimate
  /\ FreshValue(i, k) # txReadSets[i][k]

OnEstimate(i, k) == txReadSets[i][k] # None /\ LatestBefore(i, k) = Estimate

\* ValidateTransactionState returns true and no conflicting index.
Validates(i) == \A k \in Keys : ~Stale(i, k) /\ ~OnEstimate(i, k)

\* Values that are not estimates go to the parent; a deleted one is deleted.
WriteLatestToStore ==
  parentStore' = [k \in Keys |-> IF GetLatestNonEstimate(k) = None THEN parentStore[k]
                                 ELSE GetLatestNonEstimate(k)]

\* "this shouldnt happen because if we have a conflict it should always happen
\* within multiversion store": what the panic of ValidateReadset asserts, for
\* the readset of an incarnation.
NoParentConflict ==
  \A i \in Tx, k \in Keys :
    readset[i][k] # None /\ LatestBefore(i, k) = None => readset[i][k] = parentStore[k]
==============================================================================
