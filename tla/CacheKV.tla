------------------------------- MODULE CacheKV -------------------------------
(***************************************************************************)
(* cachekv.Store (src/cachekv): a stack of branches over a base store.     *)
(* Each holds what was set in it, the keys of it that are not yet sorted,  *)
(* and a B-tree of the sorted ones that the iterators walk.                *)
(*                                                                         *)
(* Only the top of the stack is used, as by code that branches a context,  *)
(* runs a message on the branch and writes or drops it.                    *)
(***************************************************************************)
EXTENDS KeyRange, FiniteSetsExt

CONSTANTS
  Values,       \* the values stores hold
  Depth,        \* the number of branches there can be, one on another
  Ranges,       \* [start, end], each a key or None for nil
  NoTree,       \* a BTree whose tree is nil
  BaseAtStart   \* the contents the base store can have

\* A merge iterator: what its parent iterator and its cache iterator have
\* still to give, and its direction.
Pair == [key : Keys, value : Values \cup {Nil}]
MergeIterator == [parent : Seq(Pair), cache : Seq(Pair), ascending : BOOLEAN]

\* A byte string that is not empty has a place in the order of the finitely many
\* there are, and nil is none of them.
ASSUME CacheAssumption ==
  /\ IsFiniteSet(Keys) /\ Keys \subseteq Nat /\ Depth \in Nat
  /\ Nil \notin Values /\ None \notin Values \cup {Nil}
  /\ NoTree \notin [Keys -> Values \cup {Nil, None}]
  /\ None \notin Nat /\ None \notin Seq(Pair) /\ None \notin MergeIterator
  /\ Ranges \subseteq [start : Nat \cup {None}, end : Nat \cup {None}]
  /\ BaseAtStart \subseteq [Keys -> Values \cup {Nil}]

VARIABLES
  base,           \* key -> value or Nil, the store at the bottom
  cache,          \* per branch: key -> what was set (Nil: deleted), or None
  unsortedCache,  \* per branch: the keys set since they were last sorted
  sortedCache,    \* per branch: key -> what was set, or None; or NoTree
  iter            \* the open cacheMergeIterator, or None

cacheVars == <<cache, unsortedCache, sortedCache>>
kvVars == <<base, cacheVars, iter>>

top == Len(cache)

NewStore == [k \in Keys |-> None]

\* What each branch of c reads, over the store b.
ReadThrough(b, c) ==
  LET at[l \in 0 .. Len(c)] ==
        IF l = 0 THEN b ELSE [k \in Keys |-> IF c[l][k] # None THEN c[l][k] ELSE at[l - 1][k]]
  IN  at

\* getFromCache, for each branch; what is read is not kept.
GetFrom == ReadThrough(base, cache)

------------------------------------------------------------------------------
(* Iterators *)

\* memIterator: it seeks one end of the range and stops at the other.  Seek
\* finds the first key that is not smaller.
MemKeys(T, r, ascending) ==
  LET AtOrPastEnd == {k \in T : r.end # None /\ k >= r.end}
  IN  IF ascending
      THEN {k \in T : (r.start # None => k >= r.start) /\ k \notin AtOrPastEnd}
      ELSE {k \in T : (AtOrPastEnd # {} => k < Min(AtOrPastEnd)) /\ (r.start # None => k >= r.start)}

MemIterator(t, r, ascending) ==
  Pairs(t, MemKeys({k \in Keys : t[k] # None}, r, ascending), ascending)

Comes(it, a, b) == IF it.ascending THEN a < b ELSE a > b

Skipped(it, n) ==
  it.cache[n].value = Nil /\ (it.parent = <<>> \/ Comes(it, it.cache[n].key, it.parent[1].key))

SkipCacheDeletes(it) ==
  LET Kept == {n \in DOMAIN it.cache : ~Skipped(it, n)}
  IN  IF Kept = {} THEN <<>> ELSE SubSeq(it.cache, Min(Kept), Len(it.cache))

\* The parent gives a pair: it, or that of the cache, is to be given next.
Exists(it) ==
  \/ it.cache = <<>>
  \/ Head(it.cache).value # Nil
  \/ Comes(it, Head(it.parent).key, Head(it.cache).key)

SkipDeleted(it) ==
  IF Head(it.parent).key = Head(it.cache).key
  THEN [it EXCEPT !.parent = Tail(@), !.cache = Tail(@)]
  ELSE [it EXCEPT !.cache = SkipCacheDeletes(it)]

SkipUntilExistsOrInvalid[it \in MergeIterator] ==
  IF it.parent = <<>> THEN [it EXCEPT !.cache = SkipCacheDeletes(it)]
  ELSE IF Exists(it) THEN it
  ELSE SkipUntilExistsOrInvalid[SkipDeleted(it)]

IterValid(it) == it.parent # <<>> \/ it.cache # <<>>

FromParent(it) ==
  it.parent # <<>> /\ (it.cache = <<>> \/ Comes(it, Head(it.parent).key, Head(it.cache).key))

FromBoth(it) ==
  it.parent # <<>> /\ it.cache # <<>> /\ Head(it.parent).key = Head(it.cache).key

\* Key and Value
Current(it) == IF FromParent(it) THEN Head(it.parent) ELSE Head(it.cache)

\* A Next that leaves the parent where it is when both have the key.
PastOnlyCache(it) ==
  IF FromParent(it) THEN [it EXCEPT !.parent = Tail(@)] ELSE [it EXCEPT !.cache = Tail(@)]

\* What Next leaves behind.
PastCurrent(it) ==
  IF FromParent(it) THEN [it EXCEPT !.parent = Tail(@)]
  ELSE IF FromBoth(it) THEN [it EXCEPT !.parent = Tail(@), !.cache = Tail(@)]
  ELSE [it EXCEPT !.cache = Tail(@)]

IterNext(it) == SkipUntilExistsOrInvalid[PastCurrent(it)]

\* All an iterator gives.  The iterators below one that is open stand on copies
\* of their trees, so that it makes no difference when they are drained.
Drained[it \in MergeIterator] ==
  IF IterValid(it) THEN <<Current(it)>> \o Drained[IterNext(it)] ELSE <<>>

NewCacheMergeIterator(parent, c, ascending) ==
  SkipUntilExistsOrInvalid[[parent |-> parent, cache |-> c, ascending |-> ascending]]

\* dirtyItems leaves at once for a range that is the wrong way round.
WrongWay(r) == r.start # None /\ r.end # None /\ r.start > r.end

ToSort(l, r) == IF WrongWay(r) THEN {} ELSE {k \in unsortedCache[l] : IsKeyInDomain(k, r)}

Sorted(l, r) ==
  [k \in Keys |-> IF k \in ToSort(l, r) THEN cache[l][k]
                  ELSE IF sortedCache[l] = NoTree THEN None ELSE sortedCache[l][k]]

\* What the iterators of the branches give, each over that of the branch below.
GivenThrough(parent, caches, ascending) ==
  LET at[l \in 0 .. Len(caches)] ==
        IF l = 0 THEN parent ELSE Drained[NewCacheMergeIterator(at[l - 1], caches[l], ascending)]
  IN  at

\* iterator of the branch l, which opens those of all branches below it.
Iterator(l, r, ascending) ==
  LET caches == [m \in 1 .. top |-> MemIterator(Sorted(m, r), r, ascending)]
      parents == GivenThrough(Contents(base, r, ascending), caches, ascending)
  IN  NewCacheMergeIterator(parents[l - 1], caches[l], ascending)

KVInit ==
  /\ base \in BaseAtStart
  /\ cache = <<>> /\ unsortedCache = <<>> /\ sortedCache = <<>>
  /\ iter = None

\* Without a tree, in any branch, dirtyItems leaves it so for a range that is the
\* wrong way round, and Copy panics: nothing is opened.
KVOpen(r, ascending) ==
  /\ top > 0 /\ iter = None
  /\ WrongWay(r) => \A l \in 1 .. top : sortedCache[l] # NoTree
  /\ iter' = Iterator(top, r, ascending)
  /\ unsortedCache' = [l \in 1 .. top |-> unsortedCache[l] \ ToSort(l, r)]
  /\ sortedCache' = [l \in 1 .. top |-> Sorted(l, r)]
  /\ UNCHANGED <<base, cache>>

KVStep ==
  /\ iter # None
  /\ IterValid(iter)
  /\ iter' = IterNext(iter)
  /\ UNCHANGED <<base, cacheVars>>

KVClose == iter # None /\ iter' = None /\ UNCHANGED <<base, cacheVars>>

------------------------------------------------------------------------------
(* Writes *)

\* A setCacheValue that marks a key only when it is set for the first time.
SetMarkOnce(l, S, m) ==
  /\ cache' = [cache EXCEPT ![l] = [k \in Keys |-> IF k \in S THEN m[k] ELSE @[k]]]
  /\ unsortedCache' = [unsortedCache EXCEPT ![l] = @ \cup {k \in S : cache[l][k] = None}]
  /\ UNCHANGED sortedCache

\* A setCacheValue that marks more than it sets.
SetMarkEverything(l, S, m) ==
  /\ cache' = [cache EXCEPT ![l] = [k \in Keys |-> IF k \in S THEN m[k] ELSE @[k]]]
  /\ unsortedCache' = [unsortedCache EXCEPT ![l] = Keys]
  /\ UNCHANGED sortedCache

\* setCacheValue, for several keys of the branch l: m gives the new values of
\* the keys in S.
SetCacheValues(l, S, m) ==
  /\ cache' = [cache EXCEPT ![l] = [k \in Keys |-> IF k \in S THEN m[k] ELSE @[k]]]
  /\ unsortedCache' = [unsortedCache EXCEPT ![l] = @ \cup S]
  /\ UNCHANGED sortedCache

\* Set, or Delete for Nil.
KVSet(k, v) ==
  /\ top > 0
  /\ SetCacheValues(top, {k}, [j \in {k} |-> v])
  /\ UNCHANGED <<base, iter>>

\* A nil end compares as the smallest key: no key of the cache is before it.
InKeyRange(k, r) == r.end # None /\ IsKeyInDomain(k, r)

\* A search that takes a deleted key for one of the parent's.
KeysInRangeKept(r) ==
  {k \in Keys : IsKeyInDomain(k, r) /\ base[k] # Nil}
    \cup {k \in Keys : InKeyRange(k, r) /\ \E l \in 1 .. top : cache[l][k] \notin {None, Nil}}

\* What GetAllKeyStrsInRange finds in each branch of c, over the store b.
KeysThrough(b, c, r) ==
  LET at[l \in 0 .. Len(c)] ==
        IF l = 0 THEN {k \in Keys : IsKeyInDomain(k, r) /\ b[k] # Nil}
        ELSE (at[l - 1] \cup {k \in Keys : InKeyRange(k, r) /\ c[l][k] \notin {None, Nil}})
               \ {k \in Keys : InKeyRange(k, r) /\ c[l][k] = Nil}
  IN  at

GetAllKeyStrsInRange(r) == KeysThrough(base, cache, r)[top]

KVDeleteAll(r) ==
  /\ top > 0
  /\ SetCacheValues(top, GetAllKeyStrsInRange(r), [k \in Keys |-> Nil])
  /\ UNCHANGED <<base, iter>>

\* All of the cache, each time: entries stay dirty.
Dirty == {k \in Keys : cache[top][k] # None}

\* To the branch below, or to the base store, which has no iterator open.
KVWrite ==
  /\ top > 0
  /\ IF top > 1
     THEN SetCacheValues(top - 1, Dirty, cache[top]) /\ UNCHANGED base
     ELSE /\ iter = None
          /\ base' = [k \in Keys |-> IF k \in Dirty THEN cache[top][k] ELSE base[k]]
          /\ UNCHANGED cacheVars
  /\ UNCHANGED iter

\* CacheWrap
KVBranch ==
  /\ top < Depth
  /\ cache' = Append(cache, NewStore)
  /\ unsortedCache' = Append(unsortedCache, {})
  /\ sortedCache' = Append(sortedCache, NoTree)
  /\ UNCHANGED <<base, iter>>

\* The branch is no longer referred to.
KVDiscard ==
  /\ top > 0
  /\ cache' = SubSeq(cache, 1, top - 1)
  /\ unsortedCache' = SubSeq(unsortedCache, 1, top - 1)
  /\ sortedCache' = SubSeq(sortedCache, 1, top - 1)
  /\ UNCHANGED <<base, iter>>

KVNext ==
  \/ KVBranch \/ KVDiscard \/ KVWrite \/ KVStep \/ KVClose
  \/ \E k \in Keys, v \in Values \cup {Nil} : KVSet(k, v)
  \/ \E r \in Ranges : KVDeleteAll(r)
  \/ \E r \in Ranges, ascending \in BOOLEAN : KVOpen(r, ascending)

KVSpec == KVInit /\ [][KVNext]_kvVars
------------------------------------------------------------------------------
(* Properties *)

\* The branches and the iterator are well typed, and what a branch has marked as
\* unsorted it has set.
KVTypeOK ==
  /\ base \in [Keys -> Values \cup {Nil}]
  /\ cache \in Seq([Keys -> Values \cup {Nil, None}]) /\ top <= Depth
  /\ unsortedCache \in Seq(SUBSET Keys) /\ Len(unsortedCache) = top
  /\ sortedCache \in Seq([Keys -> Values \cup {Nil, None}] \cup {NoTree}) /\ Len(sortedCache) = top
  /\ iter \in MergeIterator \cup {None}
  /\ \A l \in 1 .. top : unsortedCache[l] \subseteq {k \in Keys : cache[l][k] # None}

\* What a branch has set and its tree does not hold is marked as unsorted: the
\* next iterator finds every value last set, and none that was overwritten.
TreesAreCurrent ==
  \A l \in 1 .. top : \A k \in Keys \ unsortedCache[l] :
    cache[l][k] = (IF sortedCache[l] = NoTree THEN None ELSE sortedCache[l][k])

Branches == INSTANCE BranchedStore WITH
  stack <- [l \in 1 .. top |-> GetFrom[l]],
  rest <- IF iter = None THEN None ELSE Drained[iter]

\* The stack of caches implements a stack of maps: every branch reads as a copy
\* of the one it was made from with its own writes, also in the middle of an
\* iteration, an iterator gives exactly the pairs its store held when it was
\* opened, in its direction, whatever is set, deleted, branched, written or
\* dropped while it is open, and Write leaves below what the branch holds.
ImplementsBranches == Branches!Spec

\* GetAllKeyStrsInRange, which DeleteAll uses, finds the keys an iterator over
\* the range gives, through all branches, if the range has an end: a nil end
\* hides the keys of the caches.
KeysAreIterated ==
  \A r \in Ranges : top > 0 /\ r.end # None =>
    GetAllKeyStrsInRange(r) = {k \in Keys : IsKeyInDomain(k, r) /\ GetFrom[top][k] # Nil}
==============================================================================
