---------------------------- MODULE CacheKVProofs ----------------------------
(***************************************************************************)
(* The branches of cachekv.Store are maps of their own and their iterators *)
(* give what the maps hold: proved for every set of keys, depth of         *)
(* branches and contents of the store below.                               *)
(***************************************************************************)
EXTENDS CacheKVLemmas

------------------------------------------------------------------------------
(* Sequences of caches *)

Put(s, l, w) == [s EXCEPT ![l] = w]

\* f is s with x in place of the element l, with x added, without the last.
IsPut(T, s, l, x, f) ==
  /\ f \in Seq(T) /\ Len(f) = Len(s) /\ f[l] = x
  /\ \A i \in 1 .. Len(s) : i # l => f[i] = s[i]

IsAppended(T, s, x, f) ==
  /\ f \in Seq(T) /\ Len(f) = Len(s) + 1 /\ f[Len(s) + 1] = x
  /\ \A i \in 1 .. Len(s) : f[i] = s[i]

IsFront(T, s, f) ==
  /\ f \in Seq(T) /\ Len(f) = Len(s) - 1
  /\ \A i \in 1 .. Len(s) - 1 : f[i] = s[i]

\* A sequence one element of which is replaced.
LEMMA SeqExcept ==
  ASSUME NEW T, NEW s \in Seq(T), NEW l \in 1 .. Len(s), NEW x \in T
  PROVE  IsPut(T, s, l, x, Put(s, l, x))
BY DEF IsPut, Put

\* A sequence to which an element is added.
LEMMA SeqAppend ==
  ASSUME NEW T, NEW s \in Seq(T), NEW x \in T
  PROVE  IsAppended(T, s, x, Append(s, x))
BY DEF IsAppended

\* A sequence without its last element.
LEMMA SeqFront ==
  ASSUME NEW T, NEW s \in Seq(T), Len(s) > 0
  PROVE  IsFront(T, s, SubSeq(s, 1, Len(s) - 1))
<1>0. PICK m \in Nat : m = Len(s) /\ m > 0
  OBVIOUS
<1>1. PICK n \in Nat : n = m - 1 /\ n <= m
  BY <1>0
<1>2. PICK f : f = SubSeq(s, 1, n)
  BY Zenon
<1>3. f \in Seq(T) /\ Len(f) = n /\ \A i \in 1 .. n : f[i] = s[i]
  BY <1>0, <1>1, <1>2
<1> QED
  BY <1>0, <1>1, <1>2, <1>3, Zenon DEF IsFront

Trees == Caches \cup {NoTree}

TreeAt(t, k) == IF t = NoTree THEN None ELSE t[k]

\* What a branch has set, which of its keys are unsorted, and its tree.
LevelOK(c, u, t) ==
  /\ c \in Caches /\ t \in Trees /\ u \subseteq {k \in Keys : c[k] # None}
  /\ \A k \in Keys \ u : c[k] = TreeAt(t, k)

LevelsOK(c, u, t) ==
  /\ c \in Seq(Caches) /\ Len(c) \in Nat /\ Len(c) <= Depth
  /\ u \in Seq(SUBSET Keys) /\ Len(u) = Len(c)
  /\ t \in Seq(Trees) /\ Len(t) = Len(c)
  /\ \A l \in 1 .. Len(c) : LevelOK(c[l], u[l], t[l])

\* The invariant, of constants.
LEMMA InvOfLevels ==
  KVTypeOK /\ TreesAreCurrent
    <=> base \in Maps /\ LevelsOK(cache, unsortedCache, sortedCache) /\ iter \in MergeIterator \cup {None}
<1>1. ASSUME KVTypeOK, TreesAreCurrent
      PROVE  base \in Maps /\ LevelsOK(cache, unsortedCache, sortedCache) /\ iter \in MergeIterator \cup {None}
  <2>1. /\ base \in Maps /\ cache \in Seq(Caches) /\ Len(cache) <= Depth
        /\ unsortedCache \in Seq(SUBSET Keys) /\ Len(unsortedCache) = Len(cache)
        /\ sortedCache \in Seq(Trees) /\ Len(sortedCache) = Len(cache)
        /\ iter \in MergeIterator \cup {None}
        /\ \A l \in 1 .. Len(cache) : unsortedCache[l] \subseteq {k \in Keys : cache[l][k] # None}
    BY <1>1, Zenon DEF KVTypeOK, top, Maps, Caches, Trees
  <2>2. Len(cache) \in Nat /\ \A l \in 1 .. Len(cache) : cache[l] \in Caches /\ sortedCache[l] \in Trees
    BY <2>1
  <2>3. \A l \in 1 .. Len(cache) : \A k \in Keys \ unsortedCache[l] : cache[l][k] = TreeAt(sortedCache[l], k)
    BY <1>1, Zenon DEF TreesAreCurrent, top, TreeAt
  <2> QED
    BY <2>1, <2>2, <2>3, Zenon DEF LevelsOK, LevelOK
<1>2. ASSUME base \in Maps, LevelsOK(cache, unsortedCache, sortedCache), iter \in MergeIterator \cup {None}
      PROVE  KVTypeOK /\ TreesAreCurrent
  <2>1. KVTypeOK
    BY <1>2, Zenon DEF KVTypeOK, top, Maps, Caches, Trees, LevelsOK, LevelOK
  <2>2. TreesAreCurrent
    BY <1>2, Zenon DEF TreesAreCurrent, top, TreeAt, LevelsOK, LevelOK
  <2> QED
    BY <2>1, <2>2, Zenon
<1> QED
  BY <1>1, <1>2, Zenon

\* A new branch.
LEMMA LevelsAppend ==
  ASSUME NEW c, NEW u, NEW t, LevelsOK(c, u, t), Len(c) < Depth
  PROVE  LevelsOK(Append(c, NewStore), Append(u, {}), Append(t, NoTree))
<1>1. /\ c \in Seq(Caches) /\ Len(c) \in Nat /\ u \in Seq(SUBSET Keys) /\ Len(u) = Len(c)
      /\ t \in Seq(Trees) /\ Len(t) = Len(c) /\ \A l \in 1 .. Len(c) : LevelOK(c[l], u[l], t[l])
  BY Zenon DEF LevelsOK
<1>2. NewStore \in Caches /\ {} \in SUBSET Keys /\ NoTree \in Trees
  BY Zenon DEF NewStore, Caches, Trees
<1>3. LevelOK(NewStore, {}, NoTree)
  BY <1>2, Zenon DEF LevelOK, NewStore, TreeAt
<1>4. PICK c2, u2, t2 : c2 = Append(c, NewStore) /\ u2 = Append(u, {}) /\ t2 = Append(t, NoTree)
  BY Zenon
<1>5. /\ c2 \in Seq(Caches) /\ Len(c2) = Len(c) + 1 /\ c2[Len(c) + 1] = NewStore
      /\ \A i \in 1 .. Len(c) : c2[i] = c[i]
  <2>1. IsAppended(Caches, c, NewStore, c2)
    BY <1>1, <1>2, <1>4, SeqAppend, Zenon
  <2> QED
    BY <1>1, <2>1, Zenon DEF IsAppended
<1>6. /\ u2 \in Seq(SUBSET Keys) /\ Len(u2) = Len(c) + 1 /\ u2[Len(c) + 1] = {}
      /\ \A i \in 1 .. Len(c) : u2[i] = u[i]
  <2>1. IsAppended(SUBSET Keys, u, {}, u2)
    BY <1>1, <1>2, <1>4, SeqAppend, Zenon
  <2> QED
    BY <1>1, <2>1, Zenon DEF IsAppended
<1>7. /\ t2 \in Seq(Trees) /\ Len(t2) = Len(c) + 1 /\ t2[Len(c) + 1] = NoTree
      /\ \A i \in 1 .. Len(c) : t2[i] = t[i]
  <2>1. IsAppended(Trees, t, NoTree, t2)
    BY <1>1, <1>2, <1>4, SeqAppend, Zenon
  <2> QED
    BY <1>1, <2>1, Zenon DEF IsAppended
<1>8. Depth \in Nat
  BY CacheAssumption, Zenon
<1>9. Len(c) + 1 \in Nat /\ Len(c) + 1 <= Depth /\ \A l \in 1 .. Len(c) + 1 : l \in 1 .. Len(c) \/ l = Len(c) + 1
  BY <1>1, <1>8
<1>10. \A l \in 1 .. Len(c2) : LevelOK(c2[l], u2[l], t2[l])
  BY <1>1, <1>3, <1>5, <1>6, <1>7, <1>9, Zenon
<1>11. LevelsOK(c2, u2, t2)
  BY <1>5, <1>6, <1>7, <1>9, <1>10, Zenon DEF LevelsOK
<1> QED
  BY <1>4, <1>11, Zenon

\* A branch that is dropped.
LEMMA LevelsFront ==
  ASSUME NEW c, NEW u, NEW t, LevelsOK(c, u, t), Len(c) > 0
  PROVE  LevelsOK(SubSeq(c, 1, Len(c) - 1), SubSeq(u, 1, Len(c) - 1), SubSeq(t, 1, Len(c) - 1))
<1>1. /\ c \in Seq(Caches) /\ Len(c) \in Nat /\ u \in Seq(SUBSET Keys) /\ Len(u) = Len(c)
      /\ t \in Seq(Trees) /\ Len(t) = Len(c) /\ \A l \in 1 .. Len(c) : LevelOK(c[l], u[l], t[l])
      /\ Len(c) <= Depth
  BY Zenon DEF LevelsOK
<1>2. PICK n \in Nat : n = Len(c) - 1
  BY <1>1
<1>4. PICK c2, u2, t2 : c2 = SubSeq(c, 1, n) /\ u2 = SubSeq(u, 1, n) /\ t2 = SubSeq(t, 1, n)
  BY Zenon
<1>5. c2 \in Seq(Caches) /\ Len(c2) = n /\ \A i \in 1 .. n : c2[i] = c[i]
  <2>1. IsFront(Caches, c, c2)
    BY <1>1, <1>2, <1>4, SeqFront, Zenon
  <2> QED
    BY <1>1, <1>2, <2>1, Zenon DEF IsFront
<1>6. u2 \in Seq(SUBSET Keys) /\ Len(u2) = n /\ \A i \in 1 .. n : u2[i] = u[i]
  <2>1. IsFront(SUBSET Keys, u, u2)
    BY <1>1, <1>2, <1>4, SeqFront, Zenon
  <2> QED
    BY <1>1, <1>2, <2>1, Zenon DEF IsFront
<1>7. t2 \in Seq(Trees) /\ Len(t2) = n /\ \A i \in 1 .. n : t2[i] = t[i]
  <2>1. IsFront(Trees, t, t2)
    BY <1>1, <1>2, <1>4, SeqFront, Zenon
  <2> QED
    BY <1>1, <1>2, <2>1, Zenon DEF IsFront
<1>8. Depth \in Nat
  BY CacheAssumption, Zenon
<1>9. n <= Depth /\ \A l \in 1 .. n : l \in 1 .. Len(c)
  BY <1>1, <1>2, <1>8
<1>10. \A l \in 1 .. n : LevelOK(c2[l], u2[l], t2[l])
  BY <1>1, <1>5, <1>6, <1>7, <1>9, Zenon
<1>11. LevelsOK(c2, u2, t2)
  BY <1>5, <1>6, <1>7, <1>9, <1>10, Zenon DEF LevelsOK
<1> QED
  BY <1>2, <1>4, <1>11, Zenon

\* The values m of the keys in S, over y.
WithSet(S, m, y) == [k \in Keys |-> IF k \in S THEN m[k] ELSE y[k]]
Valued(S, m) == \A k \in S : m[k] \in Values \cup {Nil}

\* Keys set in a branch are marked.
LEMMA LevelsSet ==
  ASSUME NEW c, NEW u, NEW t, LevelsOK(c, u, t), NEW l \in 1 .. Len(c),
         NEW S \in SUBSET Keys, NEW m, Valued(S, m)
  PROVE  /\ WithSet(S, m, c[l]) \in Caches
         /\ LevelsOK(Put(c, l, WithSet(S, m, c[l])), Put(u, l, u[l] \cup S), t)
<1> SUFFICES ASSUME NEW x, x = [k \in Keys |-> IF k \in S THEN m[k] ELSE c[l][k]]
             PROVE  x \in Caches /\ LevelsOK(Put(c, l, x), Put(u, l, u[l] \cup S), t)
  BY Zenon DEF WithSet
<1> \A k \in S : m[k] \in Values \cup {Nil}
  BY Zenon DEF Valued
<1>1. /\ c \in Seq(Caches) /\ Len(c) \in Nat /\ u \in Seq(SUBSET Keys) /\ Len(u) = Len(c)
      /\ t \in Seq(Trees) /\ Len(t) = Len(c) /\ \A i \in 1 .. Len(c) : LevelOK(c[i], u[i], t[i])
      /\ Len(c) <= Depth
  BY Zenon DEF LevelsOK
<1>2. PICK y \in Caches : y = c[l]
  BY <1>1, Zenon DEF LevelOK
<1>3. PICK v : v = u[l]
  BY Zenon
<1>4. PICK z \in Trees : z = t[l]
  BY <1>1, Zenon DEF LevelOK
<1>5. v \subseteq {k \in Keys : y[k] # None} /\ \A k \in Keys \ v : y[k] = TreeAt(z, k)
  BY <1>1, <1>2, <1>3, <1>4, Zenon DEF LevelOK
<1>6. x = [k \in Keys |-> IF k \in S THEN m[k] ELSE y[k]]
  BY <1>2, Zenon
<1>7. x \in Caches /\ \A k \in S : x[k] # None
  BY <1>6, ValueFacts, Zenon DEF Caches
<1>8. v \cup S \subseteq {k \in Keys : x[k] # None}
  BY <1>5, <1>6, <1>7, Zenon
<1>9. \A k \in Keys \ (v \cup S) : x[k] = TreeAt(z, k)
  BY <1>5, <1>6, Zenon
<1>10. LevelOK(x, v \cup S, z)
  BY <1>7, <1>8, <1>9, Zenon DEF LevelOK
<1>11. PICK c2, u2 : c2 = Put(c, l, x) /\ u2 = Put(u, l, v \cup S)
  BY Zenon
<1>12. /\ c2 \in Seq(Caches) /\ Len(c2) = Len(c) /\ c2[l] = x
       /\ \A i \in 1 .. Len(c) : i # l => c2[i] = c[i]
  <2>1. IsPut(Caches, c, l, x, c2)
    BY <1>1, <1>7, <1>11, SeqExcept, Zenon
  <2> QED
    BY <2>1, Zenon DEF IsPut
<1>13. /\ u2 \in Seq(SUBSET Keys) /\ Len(u2) = Len(c) /\ u2[l] = v \cup S
       /\ \A i \in 1 .. Len(c) : i # l => u2[i] = u[i]
  <2>1. v \cup S \in SUBSET Keys /\ l \in 1 .. Len(u)
    BY <1>1, <1>8, Zenon
  <2> QED
    <3>1. IsPut(SUBSET Keys, u, l, v \cup S, u2)
      BY <1>1, <1>11, <2>1, SeqExcept, Zenon
    <3> QED
      BY <1>1, <3>1, Zenon DEF IsPut
<1>14. ASSUME NEW i \in 1 .. Len(c) PROVE LevelOK(c2[i], u2[i], t[i])
  <2>1. CASE i = l
    BY <1>4, <1>10, <1>12, <1>13, <2>1, Zenon
  <2>2. CASE i # l
    BY <1>1, <1>12, <1>13, <2>2, Zenon
  <2> QED
    BY <2>1, <2>2, Zenon
<1>15. LevelsOK(c2, u2, t)
  BY <1>1, <1>12, <1>13, <1>14, Zenon DEF LevelsOK
<1> QED
  BY <1>3, <1>7, <1>11, <1>15, Zenon
------------------------------------------------------------------------------
(* What the branches read *)

\* The maps the branches stand for.
Stack(b, c) == [l \in 1 .. Len(c) |-> ReadThrough(b, c)[l]]

\* Each is a map, and the last is what the topmost branch reads.
LEMMA StackMaps ==
  ASSUME NEW b \in Maps, NEW c \in Seq(Caches)
  PROVE  /\ Len(c) \in Nat /\ Stack(b, c) \in Seq(Maps) /\ Len(Stack(b, c)) = Len(c)
         /\ \A l \in 1 .. Len(c) : Stack(b, c)[l] = ReadThrough(b, c)[l]
         /\ \A l \in 0 .. Len(c) : ReadThrough(b, c)[l] \in Maps
         /\ (IF Stack(b, c) = <<>> THEN b ELSE Stack(b, c)[Len(Stack(b, c))]) = ReadThrough(b, c)[Len(c)]
<1>1. ReadThrough(b, c) \in [0 .. Len(c) -> Maps] /\ ReadThrough(b, c)[0] = b
  <2>1. Reads(ReadThrough(b, c), b, c)
    BY ReadUnfold, Zenon
  <2> QED
    BY <2>1, Zenon DEF Reads
<1>n. PICK n \in Nat : n = Len(c)
  OBVIOUS
<1>2. PICK f : n = Len(c) /\ f = ReadThrough(b, c) /\ f \in [0 .. n -> Maps] /\ f[0] = b
  BY <1>1, <1>n, Zenon
<1>3. PICK s : s = [l \in 1 .. n |-> f[l]]
  BY Zenon
<1>4. s \in Seq(Maps) /\ Len(s) = n /\ \A l \in 1 .. n : s[l] = f[l]
  BY <1>2, <1>3
<1>5. (IF s = <<>> THEN b ELSE s[n]) = f[n]
  <2>1. CASE n = 0
    BY <1>2, <1>4, <2>1
  <2>2. CASE n # 0
    <3>1. s # <<>> /\ n \in 1 .. n
      BY <1>4, <2>2
    <3> QED
      BY <1>4, <3>1, Zenon
  <2> QED
    BY <2>1, <2>2, Zenon
<1>6. s = Stack(b, c)
  BY <1>2, <1>3, Zenon DEF Stack
<1>7. \A l \in 0 .. n : f[l] \in Maps
  BY <1>2, Zenon
<1> QED
  BY <1>2, <1>4, <1>5, <1>6, <1>7, Zenon

\* Two stacks are equal when their branches read the same.
LEMMA SameStack ==
  ASSUME NEW s \in Seq(Maps), NEW t \in Seq(Maps), Len(s) = Len(t), \A l \in 1 .. Len(s) : s[l] = t[l]
  PROVE  s = t
OBVIOUS

\* A new branch reads as the one it was made from.
LEMMA BranchStack ==
  ASSUME NEW b \in Maps, NEW c \in Seq(Caches)
  PROVE  Stack(b, Append(c, NewStore)) = Append(Stack(b, c), ReadThrough(b, c)[Len(c)])
<1>1. PICK d : d = Append(c, NewStore)
  BY Zenon
<1>2. NewStore \in Caches /\ \A k \in Keys : NewStore[k] = None
  BY Zenon DEF NewStore, Caches
<1>3. /\ d \in Seq(Caches) /\ Len(d) = Len(c) + 1 /\ d[Len(c) + 1] = NewStore
      /\ \A i \in 1 .. Len(c) : d[i] = c[i]
  <2>1. IsAppended(Caches, c, NewStore, d)
    BY <1>1, <1>2, SeqAppend, Zenon
  <2> QED
    BY <2>1, Zenon DEF IsAppended
<1>4. PICK n \in Nat : n = Len(c)
  BY StackMaps, Zenon
<1>5. n <= Len(c) /\ n <= Len(d) /\ \A l \in 1 .. n : c[l] = d[l]
  BY <1>3, <1>4
<1>6. \A l \in 0 .. n : ReadThrough(b, c)[l] = ReadThrough(b, d)[l]
  BY <1>3, <1>5, ReadAgree, Zenon
<1>0. PICK q \in Nat : q = n + 1
  OBVIOUS
<1>7. /\ q \in 1 .. Len(d) /\ n \in 0 .. n /\ n \in 0 .. Len(d) /\ q - 1 = n
      /\ \A l \in 1 .. q : l = q \/ l \in 1 .. n
      /\ \A l \in 1 .. n : l \in 0 .. n /\ l \in 1 .. q /\ l # q
      /\ Len(d) = q
  BY <1>0, <1>3, <1>4
<1>8. PICK m \in Maps : m = ReadThrough(b, c)[n] /\ m = ReadThrough(b, d)[n]
  BY <1>3, <1>4, <1>6, <1>7, StackMaps, Zenon
<1>9. ReadThrough(b, d)[q] = m
  <2>1. Reads(ReadThrough(b, d), b, d)
    BY <1>3, ReadUnfold, Zenon
  <2>0. ReadThrough(b, d)[q]
          = [k \in Keys |-> IF d[q][k] # None THEN d[q][k] ELSE ReadThrough(b, d)[q - 1][k]]
    BY <1>7, <2>1, Zenon DEF Reads
  <2>2. ReadThrough(b, d)[q] = [k \in Keys |-> IF d[q][k] # None THEN d[q][k] ELSE m[k]]
    BY <1>7, <1>8, <2>0, Zenon
  <2>3. [k \in Keys |-> IF d[q][k] # None THEN d[q][k] ELSE m[k]] = [k \in Keys |-> m[k]]
    BY <1>0, <1>2, <1>3, <1>4, Zenon
  <2>4. m = [k \in Keys |-> m[k]]
    BY Zenon DEF Maps
  <2> QED
    BY <2>2, <2>3, <2>4, Zenon
<1>10. PICK s \in Seq(Maps) : s = Stack(b, c) /\ Len(s) = n /\ \A l \in 1 .. n : s[l] = ReadThrough(b, c)[l]
  BY <1>4, StackMaps, Zenon
<1>d. d \in Seq(Caches) /\ Len(d) = q
  BY <1>3, <1>7, Zenon
<1>11. PICK t \in Seq(Maps) : t = Stack(b, d) /\ Len(t) = q /\ \A l \in 1 .. q : t[l] = ReadThrough(b, d)[l]
  BY <1>d, StackMaps, Zenon
<1>12. PICK w : w = Append(s, m)
  BY Zenon
<1>13. w \in Seq(Maps) /\ Len(w) = q /\ w[q] = m /\ \A l \in 1 .. n : w[l] = s[l]
  BY <1>0, <1>10, <1>12
<1>14. \A l \in 1 .. q : t[l] = w[l]
  <2>1. t[q] = w[q]
    BY <1>7, <1>9, <1>11, <1>13, Zenon
  <2>2. \A l \in 1 .. n : t[l] = w[l]
    BY <1>6, <1>7, <1>10, <1>11, <1>13, Zenon
  <2> QED
    BY <1>7, <2>1, <2>2, Zenon
<1>15. t = w
  BY <1>11, <1>13, <1>14, SameStack, Zenon
<1> QED
  BY <1>1, <1>4, <1>8, <1>10, <1>11, <1>12, <1>15, Zenon

\* Dropping a branch leaves the others.
LEMMA DiscardStack ==
  ASSUME NEW b \in Maps, NEW c \in Seq(Caches), Len(c) > 0
  PROVE  Stack(b, SubSeq(c, 1, Len(c) - 1)) = SubSeq(Stack(b, c), 1, Len(c) - 1)
<1>1. PICK n \in Nat : n = Len(c) - 1
  OBVIOUS
<1>2. PICK d : d = SubSeq(c, 1, n)
  BY Zenon
<1>3. d \in Seq(Caches) /\ Len(d) = n /\ \A i \in 1 .. n : d[i] = c[i]
  BY <1>1, <1>2, SeqFront, Zenon DEF IsFront
<1>4. n <= Len(c) /\ n <= Len(d) /\ (\A l \in 1 .. n : c[l] = d[l]) /\ Len(c) = n + 1
  BY <1>1, <1>3
<1>5. \A l \in 0 .. n : ReadThrough(b, c)[l] = ReadThrough(b, d)[l]
  BY <1>3, <1>4, ReadAgree, Zenon
<1>6. \A l \in 1 .. n : l \in 0 .. n /\ l \in 1 .. n + 1
  OBVIOUS
<1>7. PICK s \in Seq(Maps) : s = Stack(b, c) /\ Len(s) = n + 1 /\ \A l \in 1 .. n + 1 : s[l] = ReadThrough(b, c)[l]
  BY <1>4, StackMaps, Zenon
<1>8. PICK t \in Seq(Maps) : t = Stack(b, d) /\ Len(t) = n /\ \A l \in 1 .. n : t[l] = ReadThrough(b, d)[l]
  BY <1>3, StackMaps, Zenon
<1>9. PICK w : w = SubSeq(s, 1, n)
  BY Zenon
<1>10. w \in Seq(Maps) /\ Len(w) = n /\ \A l \in 1 .. n : w[l] = s[l]
  BY <1>7, <1>9
<1>11. \A l \in 1 .. n : t[l] = w[l]
  BY <1>5, <1>6, <1>7, <1>8, <1>10, Zenon
<1>12. t = w
  BY <1>8, <1>10, <1>11, SameStack, Zenon
<1> QED
  BY <1>1, <1>2, <1>7, <1>8, <1>9, <1>12, Zenon
\* What is set in a cache, over a map.
Over(x, m) == [k \in Keys |-> IF x[k] # None THEN x[k] ELSE m[k]]

\* It is a map, of which each branch is an example.
LEMMA OverReads ==
  /\ \A x \in Caches, m \in Maps : Over(x, m) \in Maps
  /\ \A b \in Maps, c \in Seq(Caches) : \A l \in 1 .. Len(c) :
       ReadThrough(b, c)[l] = Over(c[l], ReadThrough(b, c)[l - 1])
<1>1. \A x \in Caches, m \in Maps : Over(x, m) \in Maps
  BY Zenon DEF Caches, Maps, Over
<1>2. ASSUME NEW b \in Maps, NEW c \in Seq(Caches), NEW l \in 1 .. Len(c)
      PROVE  ReadThrough(b, c)[l] = Over(c[l], ReadThrough(b, c)[l - 1])
  <2>1. Reads(ReadThrough(b, c), b, c)
    BY ReadUnfold, Zenon
  <2> QED
    BY <2>1, Zenon DEF Reads, Over
<1> QED
  BY <1>1, <1>2, Zenon

\* What the branches read after one of the caches has been replaced.
Replaced(b, c, l, x, d) ==
  /\ d \in Seq(Caches) /\ Len(d) = Len(c) /\ d[l] = x
  /\ \A i \in 1 .. Len(c) : i # l => d[i] = c[i]
  /\ \A i \in 0 .. l - 1 : ReadThrough(b, d)[i] = ReadThrough(b, c)[i]
  /\ ReadThrough(b, d)[l] = Over(x, ReadThrough(b, c)[l - 1])

\* Those below it read as before, and it reads what is set, over them.
LEMMA ExceptReads ==
  ASSUME NEW b \in Maps, NEW c \in Seq(Caches), NEW l \in 1 .. Len(c), NEW x \in Caches
  PROVE  Replaced(b, c, l, x, Put(c, l, x))
<1>1. PICK d : d = Put(c, l, x)
  BY Zenon
<1>2. d \in Seq(Caches) /\ Len(d) = Len(c) /\ d[l] = x /\ \A i \in 1 .. Len(c) : i # l => d[i] = c[i]
  <2>1. IsPut(Caches, c, l, x, d)
    BY <1>1, SeqExcept, Zenon
  <2> QED
    BY <2>1, Zenon DEF IsPut
<1>3. PICK m \in Nat : m = l - 1 /\ m <= Len(c) /\ m \in 0 .. m /\ \A i \in 1 .. m : i \in 1 .. Len(c) /\ i # l
  OBVIOUS
<1>4. m <= Len(d) /\ \A i \in 1 .. m : c[i] = d[i]
  BY <1>2, <1>3, Zenon
<1>5. \A i \in 0 .. m : ReadThrough(b, c)[i] = ReadThrough(b, d)[i]
  <2>1. d \in Seq(Caches) /\ m <= Len(c)
    BY <1>2, <1>3, Zenon
  <2> QED
    BY <1>4, <2>1, ReadAgree, Zenon
<1>6. l \in 1 .. Len(d)
  BY <1>2, Zenon
<1>7. ReadThrough(b, d)[l] = Over(d[l], ReadThrough(b, d)[l - 1])
  BY <1>2, <1>6, OverReads, Zenon
<1>8. ReadThrough(b, d)[l] = Over(x, ReadThrough(b, c)[l - 1])
  BY <1>2, <1>3, <1>5, <1>7, Zenon
<1>9. \A i \in 0 .. l - 1 : ReadThrough(b, d)[i] = ReadThrough(b, c)[i]
  BY <1>3, <1>5, Zenon
<1> QED
  BY <1>1, <1>2, <1>8, <1>9, Zenon DEF Replaced

\* The caches d read as c does but for the branch l, which reads w.
Differs(b, c, d, l, w) ==
  /\ d \in Seq(Caches) /\ Len(d) = Len(c) /\ ReadThrough(b, d)[l] = w
  /\ \A i \in 1 .. Len(c) : i # l => ReadThrough(b, d)[i] = ReadThrough(b, c)[i]

\* A stack one map of which is replaced.
LEMMA StackExcept ==
  ASSUME NEW b \in Maps, NEW c \in Seq(Caches), NEW d, NEW l \in 1 .. Len(c), NEW w \in Maps,
         Differs(b, c, d, l, w)
  PROVE  Stack(b, d) = Put(Stack(b, c), l, w)
<1> /\ d \in Seq(Caches) /\ Len(d) = Len(c) /\ ReadThrough(b, d)[l] = w
    /\ \A i \in 1 .. Len(c) : i # l => ReadThrough(b, d)[i] = ReadThrough(b, c)[i]
  BY Zenon DEF Differs
<1>1. PICK s \in Seq(Maps) :
        s = Stack(b, c) /\ Len(s) = Len(c) /\ \A i \in 1 .. Len(c) : s[i] = ReadThrough(b, c)[i]
  BY StackMaps, Zenon
<1>2. PICK t \in Seq(Maps) :
        t = Stack(b, d) /\ Len(t) = Len(c) /\ \A i \in 1 .. Len(c) : t[i] = ReadThrough(b, d)[i]
  <2>1. /\ Stack(b, d) \in Seq(Maps) /\ Len(Stack(b, d)) = Len(d)
        /\ \A i \in 1 .. Len(d) : Stack(b, d)[i] = ReadThrough(b, d)[i]
    BY StackMaps, Zenon
  <2> QED
    BY <2>1, Zenon
<1>3. PICK v : v = Put(s, l, w)
  BY Zenon
<1>4. v \in Seq(Maps) /\ Len(v) = Len(c) /\ v[l] = w /\ \A i \in 1 .. Len(c) : i # l => v[i] = s[i]
  <2>1. l \in 1 .. Len(s)
    BY <1>1, Zenon
  <2>2. IsPut(Maps, s, l, w, v)
    BY <1>3, <2>1, SeqExcept, Zenon
  <2> QED
    BY <1>1, <2>2, Zenon DEF IsPut
<1>5. \A i \in 1 .. Len(c) : t[i] = v[i]
  BY <1>1, <1>2, <1>4, Zenon
<1>6. t = v
  BY <1>2, <1>4, <1>5, SameStack, Zenon
<1> QED
  BY <1>1, <1>2, <1>3, <1>6, Zenon

\* What is set in the topmost branch is set in the last map.
LEMMA SetStack ==
  ASSUME NEW b \in Maps, NEW c \in Seq(Caches), NEW n \in Nat, n = Len(c), n > 0, NEW S \in SUBSET Keys,
         NEW v, Valued(S, v), WithSet(S, v, c[n]) \in Caches
  PROVE  Stack(b, Put(c, n, WithSet(S, v, c[n]))) = Put(Stack(b, c), n, WithSet(S, v, ReadThrough(b, c)[n]))
<1> SUFFICES ASSUME NEW x \in Caches, x = [k \in Keys |-> IF k \in S THEN v[k] ELSE c[n][k]],
                    NEW w, w = ReadThrough(b, c)[n]
             PROVE  Stack(b, Put(c, n, x))
                      = Put(Stack(b, c), n, [k \in Keys |-> IF k \in S THEN v[k] ELSE w[k]])
  BY Zenon DEF WithSet
<1> \A k \in S : v[k] \in Values \cup {Nil}
  BY Zenon DEF Valued
<1>1. n \in 1 .. Len(c) /\ n - 1 \in 0 .. Len(c) /\ \A i \in 1 .. n : i # n => i \in 0 .. n - 1
  OBVIOUS
<1>2. PICK d : d = Put(c, n, x)
  BY Zenon
<1>3. Replaced(b, c, n, x, d)
  BY <1>1, <1>2, ExceptReads, Zenon
<1>4. PICK m \in Maps : m = ReadThrough(b, c)[n - 1]
  BY <1>1, StackMaps, Zenon
<1>5. w = Over(c[n], m)
  BY <1>1, <1>4, OverReads, Zenon
<1>6. Over(x, m) = [k \in Keys |-> IF k \in S THEN v[k] ELSE w[k]]
  <2>1. \A k \in S : v[k] # None
    BY ValueFacts, Zenon
  <2>2. \A k \in Keys : w[k] = IF c[n][k] # None THEN c[n][k] ELSE m[k]
    BY <1>5, Zenon DEF Over
  <2>3. \A k \in Keys : (IF x[k] # None THEN x[k] ELSE m[k]) = IF k \in S THEN v[k] ELSE w[k]
    BY <2>1, <2>2, Zenon
  <2> QED
    BY <2>3, Zenon DEF Over
<1>7. PICK y \in Maps : y = Over(x, m)
  BY OverReads, Zenon
<1>8. Differs(b, c, d, n, y)
  BY <1>1, <1>3, <1>4, <1>7, Zenon DEF Replaced, Differs
<1>9. Stack(b, d) = Put(Stack(b, c), n, y)
  BY <1>1, <1>8, StackExcept, SMTT(20)
<1> QED
  BY <1>2, <1>6, <1>7, <1>9, Zenon
\* Write to the branch below leaves it with what the topmost reads, which reads
\* as before.
LEMMA WriteStack ==
  ASSUME NEW b \in Maps, NEW c \in Seq(Caches), NEW n \in Nat, n = Len(c), n > 1,
         Over(c[n], c[n - 1]) \in Caches
  PROVE  Stack(b, Put(c, n - 1, Over(c[n], c[n - 1]))) = Put(Stack(b, c), n - 1, ReadThrough(b, c)[n])
<1> SUFFICES ASSUME NEW x \in Caches, x = [k \in Keys |-> IF c[n][k] # None THEN c[n][k] ELSE c[n - 1][k]],
                    NEW w, w = ReadThrough(b, c)[n]
             PROVE  Stack(b, Put(c, n - 1, x)) = Put(Stack(b, c), n - 1, w)
  BY Zenon DEF Over
<1>1. PICK l \in Nat : /\ l = n - 1 /\ l \in 1 .. Len(c) /\ n \in 1 .. Len(c) /\ l # n
                       /\ l - 1 \in 0 .. Len(c)
                       /\ \A i \in 1 .. n : i # l => i \in 0 .. l - 1 \/ i = n
  OBVIOUS
<1>2. PICK d : d = Put(c, l, x)
  BY Zenon
<1>3. Replaced(b, c, l, x, d)
  BY <1>1, <1>2, ExceptReads, Zenon
<1>4. PICK m \in Maps : m = ReadThrough(b, c)[l - 1]
  BY <1>1, StackMaps, Zenon
<1>5. PICK y, z : y = c[n] /\ z = c[l]
  BY Zenon
<1>6. PICK q : q = Over(z, m)
  BY Zenon
<1>7. ReadThrough(b, c)[l] = q
  BY <1>1, <1>4, <1>5, <1>6, OverReads, Zenon
<1>8. w = Over(y, q)
  BY <1>1, <1>5, <1>7, OverReads, Zenon
<1>9. x = [k \in Keys |-> IF y[k] # None THEN y[k] ELSE z[k]]
  BY <1>1, <1>5, Zenon
<1>10. Over(x, m) = w /\ Over(y, w) = w
  <2>1. \A k \in Keys : q[k] = IF z[k] # None THEN z[k] ELSE m[k]
    BY <1>6, Zenon DEF Over
  <2>2. \A k \in Keys : w[k] = IF y[k] # None THEN y[k] ELSE q[k]
    BY <1>8, Zenon DEF Over
  <2>3. \A k \in Keys : /\ (IF x[k] # None THEN x[k] ELSE m[k]) = IF y[k] # None THEN y[k] ELSE q[k]
                        /\ (IF y[k] # None THEN y[k] ELSE w[k]) = IF y[k] # None THEN y[k] ELSE q[k]
    BY <1>9, <2>1, <2>2, Zenon
  <2> QED
    BY <1>8, <2>3, Zenon DEF Over
<1>11. d \in Seq(Caches) /\ Len(d) = Len(c) /\ d[n] = y /\ ReadThrough(b, d)[l] = w
  BY <1>1, <1>3, <1>4, <1>5, <1>10, Zenon DEF Replaced
<1>12. ReadThrough(b, d)[n] = w
  <2>1. n \in 1 .. Len(d)
    BY <1>1, <1>11, Zenon
  <2>2. ReadThrough(b, d)[n] = Over(d[n], ReadThrough(b, d)[n - 1])
    BY <1>11, <2>1, OverReads, Zenon
  <2> QED
    BY <1>1, <1>10, <1>11, <2>2, Zenon
<1>13. Differs(b, c, d, l, w)
  BY <1>1, <1>3, <1>11, <1>12, Zenon DEF Differs, Replaced
<1>14. w \in Maps
  <2>1. n \in 0 .. n
    OBVIOUS
  <2> QED
    BY <2>1, StackMaps, Zenon
<1>15. Stack(b, d) = Put(Stack(b, c), l, w)
  BY <1>1, <1>13, <1>14, StackExcept, SMTT(20)
<1> QED
  BY <1>1, <1>2, <1>15, Zenon

\* Write to the base store leaves it with what the only branch reads, which reads
\* as before.
LEMMA WriteBase ==
  ASSUME NEW b \in Maps, NEW c \in Seq(Caches), Len(c) = 1, NEW w, w = ReadThrough(b, c)[1]
  PROVE  /\ w \in Maps /\ w = Over(c[1], b)
         /\ Stack(w, c) = Stack(b, c)
<1>1. 1 \in 1 .. Len(c) /\ 1 \in 0 .. Len(c) /\ 1 - 1 = 0 /\ \A i \in 1 .. Len(c) : i = 1
  OBVIOUS
<1>2. w \in Maps
  BY <1>1, StackMaps, Zenon
<1>3. ReadThrough(b, c)[0] = b /\ ReadThrough(w, c)[0] = w
  <2>1. Reads(ReadThrough(b, c), b, c) /\ Reads(ReadThrough(w, c), w, c)
    BY <1>2, ReadUnfold, Zenon
  <2> QED
    BY <2>1, Zenon DEF Reads
<1>4. w = Over(c[1], b) /\ ReadThrough(w, c)[1] = Over(c[1], w)
  <2>1. ReadThrough(b, c)[1] = Over(c[1], ReadThrough(b, c)[1 - 1])
    BY <1>1, OverReads, Zenon
  <2>2. ReadThrough(w, c)[1] = Over(c[1], ReadThrough(w, c)[1 - 1])
    BY <1>1, <1>2, OverReads, Zenon
  <2> QED
    BY <1>1, <1>3, <2>1, <2>2, Zenon
<1>5. Over(c[1], w) = w
  <2>1. \A k \in Keys : w[k] = IF c[1][k] # None THEN c[1][k] ELSE b[k]
    BY <1>4, Zenon DEF Over
  <2>2. \A k \in Keys : (IF c[1][k] # None THEN c[1][k] ELSE w[k]) = IF c[1][k] # None THEN c[1][k] ELSE b[k]
    BY <2>1, Zenon
  <2> QED
    BY <1>4, <2>2, Zenon DEF Over
<1>6. \A i \in 1 .. Len(c) : ReadThrough(w, c)[i] = ReadThrough(b, c)[i]
  BY <1>1, <1>4, <1>5, Zenon
<1>7. Stack(w, c) = Stack(b, c)
  BY <1>6, Zenon DEF Stack
<1> QED
  BY <1>2, <1>4, <1>7, Zenon
------------------------------------------------------------------------------
(* Sorting *)

\* The keys of u that opening an iterator over r sorts into a tree, and the tree
\* that results from t, for what is set in c.
Marked(u, r) == IF WrongWay(r) THEN {} ELSE {k \in u : IsKeyInDomain(k, r)}
SortedOf(c, u, t, r) == [k \in Keys |-> IF k \in Marked(u, r) THEN c[k] ELSE TreeAt(t, k)]

\* The tree is the one of the model.
LEMMA SortedIs ==
  ASSUME NEW l, NEW r
  PROVE  /\ ToSort(l, r) = Marked(unsortedCache[l], r)
         /\ Sorted(l, r) = SortedOf(cache[l], unsortedCache[l], sortedCache[l], r)
BY Zenon DEF ToSort, Sorted, Marked, SortedOf, TreeAt

\* No key is in a range that is the wrong way round.
LEMMA WrongWayEmpty ==
  ASSUME NEW r \in Ranges, WrongWay(r), NEW k \in Keys
  PROVE  ~IsKeyInDomain(k, r)
<1>1. PICK s, e : s = r.start /\ e = r.end
  BY Zenon
<1>2. s \in Nat /\ e \in Nat /\ s # None /\ e # None /\ s > e
  BY <1>1, RangeFacts, Zenon DEF WrongWay
<1>3. k \in Nat
  BY CacheAssumption, Zenon
<1>4. ~(k >= s /\ k < e)
  BY <1>2, <1>3
<1> QED
  BY <1>1, <1>2, <1>4, Zenon DEF IsKeyInDomain

\* The tree then holds what the branch has set, in the range, and what is marked
\* still is what it does not hold.
LEMMA SortedHolds ==
  ASSUME NEW c, NEW u, NEW t, LevelOK(c, u, t), NEW r \in Ranges
  PROVE  /\ SortedOf(c, u, t, r) \in Caches
         /\ \A k \in Keys : IsKeyInDomain(k, r) => SortedOf(c, u, t, r)[k] = c[k]
         /\ LevelOK(c, u \ Marked(u, r), SortedOf(c, u, t, r))
<1>1. /\ c \in Caches /\ t \in Trees /\ u \subseteq {k \in Keys : c[k] # None}
      /\ \A k \in Keys \ u : c[k] = TreeAt(t, k)
  BY Zenon DEF LevelOK
<1>2. PICK M : M = Marked(u, r)
  BY Zenon
<1>3. M \subseteq u
  BY <1>2, Zenon DEF Marked
<1>4. PICK T : T = SortedOf(c, u, t, r)
  BY Zenon
<1>5. T = [k \in Keys |-> IF k \in M THEN c[k] ELSE TreeAt(t, k)]
  BY <1>2, <1>4, Zenon DEF SortedOf
<1>6. \A k \in Keys : TreeAt(t, k) \in Values \cup {Nil, None}
  BY <1>1, Zenon DEF TreeAt, Trees, Caches
<1>7. T \in Caches
  BY <1>1, <1>5, <1>6, Zenon DEF Caches
<1>8. T # NoTree
  BY <1>7, CacheAssumption, Zenon DEF Caches
<1>9. \A k \in Keys : k \notin u \/ k \in M => T[k] = c[k]
  BY <1>1, <1>3, <1>5, Zenon
<1>10. \A k \in Keys : IsKeyInDomain(k, r) => k \notin u \/ k \in M
  BY <1>2, WrongWayEmpty, Zenon DEF Marked
<1>11. \A k \in Keys \ (u \ M) : c[k] = TreeAt(T, k)
  BY <1>8, <1>9, Zenon DEF TreeAt
<1>12. u \ M \subseteq {k \in Keys : c[k] # None} /\ T \in Trees
  BY <1>1, <1>7, Zenon DEF Trees
<1>13. LevelOK(c, u \ M, T)
  BY <1>1, <1>11, <1>12, Zenon DEF LevelOK
<1> QED
  BY <1>2, <1>4, <1>7, <1>9, <1>10, <1>13, Zenon

\* All branches sort their keys when an iterator is opened.
LEMMA LevelsSorted ==
  ASSUME NEW c, NEW u, NEW t, LevelsOK(c, u, t), NEW r \in Ranges
  PROVE  LevelsOK(c, [l \in 1 .. Len(c) |-> u[l] \ Marked(u[l], r)],
                     [l \in 1 .. Len(c) |-> SortedOf(c[l], u[l], t[l], r)])
<1>1. /\ c \in Seq(Caches) /\ Len(c) \in Nat /\ Len(c) <= Depth
      /\ \A l \in 1 .. Len(c) : LevelOK(c[l], u[l], t[l])
  BY Zenon DEF LevelsOK
<1>n. PICK n \in Nat : n = Len(c)
  BY <1>1, Zenon
<1>2. PICK u2, t2 : /\ n = Len(c)
                    /\ u2 = [l \in 1 .. n |-> u[l] \ Marked(u[l], r)]
                    /\ t2 = [l \in 1 .. n |-> SortedOf(c[l], u[l], t[l], r)]
  BY <1>n, Zenon
<1>3. \A l \in 1 .. n : LevelOK(c[l], u2[l], t2[l])
  BY <1>1, <1>2, SortedHolds, Zenon
<1>4. \A l \in 1 .. n : u2[l] \in SUBSET Keys /\ t2[l] \in Trees
  BY <1>3, Zenon DEF LevelOK
<1>5. u2 \in Seq(SUBSET Keys) /\ Len(u2) = n
  <2>1. DOMAIN u2 = 1 .. n /\ u2 = [l \in 1 .. n |-> u2[l]]
    BY <1>2, Zenon
  <2> QED
    BY <1>4, <2>1
<1>6. t2 \in Seq(Trees) /\ Len(t2) = n
  <2>1. DOMAIN t2 = 1 .. n /\ t2 = [l \in 1 .. n |-> t2[l]]
    BY <1>2, Zenon
  <2> QED
    BY <1>4, <2>1
<1>7. LevelsOK(c, u2, t2)
  BY <1>1, <1>2, <1>3, <1>5, <1>6, Zenon DEF LevelsOK
<1> QED
  BY <1>2, <1>7, Zenon

\* The iterator of the topmost branch gives what the branch reads, in the range.
LEMMA IteratorGives ==
  ASSUME base \in Maps, LevelsOK(cache, unsortedCache, sortedCache), top > 0,
         NEW r \in Ranges, NEW ascending \in BOOLEAN
  PROVE  /\ Iterator(top, r, ascending) \in MergeIterator
         /\ Drained[Iterator(top, r, ascending)] = Contents(ReadThrough(base, cache)[top], r, ascending)
<1>1. /\ cache \in Seq(Caches) /\ Len(cache) \in Nat
      /\ \A l \in 1 .. Len(cache) : LevelOK(cache[l], unsortedCache[l], sortedCache[l])
  BY Zenon DEF LevelsOK
<1>2. PICK b \in Maps, c \in Seq(Caches), n \in Nat : b = base /\ c = cache /\ n = top /\ n = Len(c)
  BY <1>1, Zenon DEF top
<1>3. PICK t : t = [l \in 1 .. n |-> Sorted(l, r)]
  BY Zenon
<1>4. \A l \in 1 .. n : Sorted(l, r) \in Caches /\ \A k \in Keys : IsKeyInDomain(k, r) => Sorted(l, r)[k] = c[l][k]
  <2> TAKE l \in 1 .. n
  <2>1. LevelOK(cache[l], unsortedCache[l], sortedCache[l])
    BY <1>1, <1>2, Zenon
  <2>2. Sorted(l, r) = SortedOf(cache[l], unsortedCache[l], sortedCache[l], r)
    BY SortedIs, Zenon
  <2>3. PICK y, v, z : y = cache[l] /\ v = unsortedCache[l] /\ z = sortedCache[l]
    BY Zenon
  <2>4. LevelOK(y, v, z)
    BY <2>1, <2>3, Zenon
  <2>5. PICK T : T = SortedOf(y, v, z, r)
    BY Zenon
  <2>6. T \in Caches /\ \A k \in Keys : IsKeyInDomain(k, r) => T[k] = y[k]
    BY <2>4, <2>5, SortedHolds, Zenon
  <2> QED
    BY <1>2, <2>2, <2>3, <2>5, <2>6, Zenon
<1>5. HoldIn(t, c, n, r)
  BY <1>3, <1>4, Zenon DEF HoldIn
<1>6. PICK d : d = TreeIterators(t, n, r, ascending)
  BY Zenon
<1>7. d = [l \in 1 .. n |-> MemIterator(Sorted(l, r), r, ascending)]
  BY <1>3, <1>6, Zenon DEF TreeIterators
<1>8. Iterator(top, r, ascending) = MergeAt(b, d, r, ascending, n)
  BY <1>2, <1>7, Zenon DEF Iterator, MergeAt
<1>9. n \in 1 .. n
  BY <1>2
<1>10. Iterates(MergeAt(b, d, r, ascending, n), ReadThrough(b, c)[n], r, ascending)
  BY <1>2, <1>5, <1>6, <1>9, LevelsGive, Zenon
<1> QED
  BY <1>2, <1>8, <1>10, Zenon DEF Iterates

------------------------------------------------------------------------------
(* The invariant and the refinement, action by action *)

KVInv ==
  base \in Maps /\ LevelsOK(cache, unsortedCache, sortedCache) /\ iter \in MergeIterator \cup {None}

\* The stack of maps and the rest of the iteration that a state stands for.
Stk == Stack(base, cache)
Rest == IF iter = None THEN None ELSE Drained[iter]
TopMap == IF Stk = <<>> THEN base ELSE Stk[Len(Stk)]

\* The abstract store's ranges are the store's.
LEMMA SameContents ==
  /\ \A k, r : Branches!IsKeyInDomain(k, r) = IsKeyInDomain(k, r)
  /\ \A map, r, ascending : Branches!Contents(map, r, ascending) = Contents(map, r, ascending)
<1>1. \A S, ascending : Branches!Ordered(S, ascending) = Ordered(S, ascending)
  BY Zenon DEF Branches!Cardinality, Cardinality, Branches!Ordered, Ordered
<1>2. \A map, S, ascending : Branches!Pairs(map, S, ascending) = Pairs(map, S, ascending)
  BY <1>1, Zenon DEF Branches!Pairs, Pairs
<1>3. ASSUME NEW map, NEW r, NEW ascending
      PROVE  Branches!Contents(map, r, ascending) = Contents(map, r, ascending)
  BY <1>2, Zenon DEF Branches!Contents, Contents, Branches!IsKeyInDomain, IsKeyInDomain
<1>4. \A k, r : Branches!IsKeyInDomain(k, r) = IsKeyInDomain(k, r)
  BY Zenon DEF Branches!IsKeyInDomain, IsKeyInDomain
<1> QED
  BY <1>3, <1>4, Zenon

\* The actions of the abstract store, under the refinement mapping.
LEMMA Abstractly ==
  /\ Branches!Branch <=> Stk' = Append(Stk, TopMap) /\ base' = base /\ Rest' = Rest
  /\ Branches!Discard <=>
       Stk # <<>> /\ Stk' = SubSeq(Stk, 1, Len(Stk) - 1) /\ base' = base /\ Rest' = Rest
  /\ \A k, v : Branches!Set(k, v) <=>
       Stk # <<>> /\ Stk' = Put(Stk, Len(Stk), Put(TopMap, k, v)) /\ base' = base /\ Rest' = Rest
  /\ \A r : Branches!DeleteAll(r) <=>
       /\ Stk # <<>>
       /\ Stk' = Put(Stk, Len(Stk), [k \in Keys |-> IF IsKeyInDomain(k, r) THEN Nil ELSE TopMap[k]])
       /\ base' = base /\ Rest' = Rest
  /\ Branches!Write <=>
       /\ Stk # <<>>
       /\ IF Len(Stk) = 1 THEN base' = TopMap /\ Stk' = Stk
          ELSE Stk' = Put(Stk, Len(Stk) - 1, TopMap) /\ base' = base
       /\ Rest' = Rest
  /\ \A r, ascending : Branches!Open(r, ascending) <=>
       Rest = None /\ Stk # <<>> /\ Rest' = Contents(TopMap, r, ascending) /\ base' = base /\ Stk' = Stk
  /\ Branches!Step <=> Rest # None /\ Rest # <<>> /\ Rest' = Tail(Rest) /\ base' = base /\ Stk' = Stk
  /\ Branches!Close <=> Rest # None /\ Rest' = None /\ base' = base /\ Stk' = Stk
<1>1. Branches!Top = TopMap
  BY Zenon DEF Branches!Top, TopMap, Stk, Stack, GetFrom, top
<1>2. Branches!Branch <=> Stk' = Append(Stk, TopMap) /\ base' = base /\ Rest' = Rest
  BY <1>1, Zenon DEF Branches!Branch, Stk, Stack, GetFrom, top, Rest
<1>3. Branches!Discard <=>
        Stk # <<>> /\ Stk' = SubSeq(Stk, 1, Len(Stk) - 1) /\ base' = base /\ Rest' = Rest
  BY Zenon DEF Branches!Discard, Stk, Stack, GetFrom, top, Rest
<1>4. \A k, v : Branches!Set(k, v) <=>
        Stk # <<>> /\ Stk' = Put(Stk, Len(Stk), Put(TopMap, k, v)) /\ base' = base /\ Rest' = Rest
  BY Zenon DEF Branches!Set, Branches!Change, Branches!Top, TopMap, Stk, Stack, GetFrom, top, Rest, Put
<1>a. \A r : Branches!DeleteAll(r) <=>
        /\ Stk # <<>>
        /\ Stk' = Put(Stk, Len(Stk), [k \in Keys |-> IF IsKeyInDomain(k, r) THEN Nil ELSE TopMap[k]])
        /\ base' = base /\ Rest' = Rest
  BY Zenon DEF Branches!DeleteAll, Branches!Change, Branches!Top, TopMap, Stk, Stack, GetFrom, top, Rest, Put,
               Branches!IsKeyInDomain, IsKeyInDomain
<1>5. Branches!Write <=>
        /\ Stk # <<>>
        /\ IF Len(Stk) = 1 THEN base' = TopMap /\ Stk' = Stk
           ELSE Stk' = Put(Stk, Len(Stk) - 1, TopMap) /\ base' = base
        /\ Rest' = Rest
  BY <1>1, Zenon DEF Branches!Write, Stk, Stack, GetFrom, top, Rest, Put
<1>6. \A r, ascending : Branches!Open(r, ascending) <=>
        Rest = None /\ Stk # <<>> /\ Rest' = Contents(TopMap, r, ascending) /\ base' = base /\ Stk' = Stk
  <2>1. \A map, r, ascending : Branches!Contents(map, r, ascending) = Contents(map, r, ascending)
    BY SameContents, Zenon
  <2> QED
    BY <1>1, <2>1, Zenon DEF Branches!Open, Stk, Stack, GetFrom, top, Rest
<1>7. Branches!Step <=> Rest # None /\ Rest # <<>> /\ Rest' = Tail(Rest) /\ base' = base /\ Stk' = Stk
  BY Zenon DEF Branches!Step, Stk, Stack, GetFrom, top, Rest
<1>8. Branches!Close <=> Rest # None /\ Rest' = None /\ base' = base /\ Stk' = Stk
  BY Zenon DEF Branches!Close, Stk, Stack, GetFrom, top, Rest
<1> QED
  BY <1>2, <1>3, <1>4, <1>a, <1>5, <1>6, <1>7, <1>8, Zenon
\* What the invariant says of the stack.
LEMMA StkFacts ==
  ASSUME KVInv
  PROVE  /\ base \in Maps /\ cache \in Seq(Caches) /\ Len(cache) \in Nat /\ Len(Stk) = Len(cache)
         /\ TopMap = ReadThrough(base, cache)[Len(cache)] /\ TopMap \in Maps
         /\ Len(cache) > 0 => Stk # <<>>
         /\ LevelsOK(cache, unsortedCache, sortedCache) /\ iter \in MergeIterator \cup {None}
<1>1. base \in Maps /\ cache \in Seq(Caches) /\ Len(cache) \in Nat
  BY Zenon DEF KVInv, LevelsOK
<1>2. PICK b \in Maps, c \in Seq(Caches) : b = base /\ c = cache
  BY <1>1, Zenon
<1>3. PICK s \in Seq(Maps), n \in Nat :
        /\ s = Stack(b, c) /\ n = Len(c) /\ Len(s) = n
        /\ (IF s = <<>> THEN b ELSE s[Len(s)]) = ReadThrough(b, c)[n]
        /\ \A l \in 0 .. n : ReadThrough(b, c)[l] \in Maps
  BY StackMaps, Zenon
<1>4. n \in 0 .. n /\ (n > 0 => s # <<>>)
  BY <1>3
<1>5. Stk = s /\ TopMap = ReadThrough(b, c)[n] /\ TopMap \in Maps
  BY <1>2, <1>3, <1>4, Zenon DEF Stk, TopMap
<1> QED
  BY <1>1, <1>2, <1>3, <1>4, <1>5, Zenon DEF KVInv

\* CacheWrap copies the topmost map.
LEMMA BranchStep ==
  ASSUME KVInv, KVBranch
  PROVE  KVInv' /\ Branches!Branch
<1>1. /\ Len(cache) < Depth /\ cache' = Append(cache, NewStore) /\ unsortedCache' = Append(unsortedCache, {})
      /\ sortedCache' = Append(sortedCache, NoTree) /\ base' = base /\ iter' = iter
  BY Zenon DEF KVBranch, top
<1>2. LevelsOK(cache', unsortedCache', sortedCache')
  BY <1>1, StkFacts, LevelsAppend, Zenon
<1>3. KVInv'
  BY <1>1, <1>2, StkFacts, Zenon DEF KVInv
<1>4. Stack(base, Append(cache, NewStore)) = Append(Stack(base, cache), ReadThrough(base, cache)[Len(cache)])
  BY StkFacts, BranchStack, Zenon
<1>5. Stk' = Append(Stk, TopMap)
  BY <1>1, <1>4, StkFacts, Zenon DEF Stk
<1>6. base' = base /\ Rest' = Rest
  BY <1>1, Zenon DEF Rest
<1> QED
  BY <1>3, <1>5, <1>6, Abstractly, Zenon

\* Dropping a branch drops its map.
LEMMA DiscardStep ==
  ASSUME KVInv, KVDiscard
  PROVE  KVInv' /\ Branches!Discard
<1>1. /\ Len(cache) > 0 /\ cache' = SubSeq(cache, 1, Len(cache) - 1)
      /\ unsortedCache' = SubSeq(unsortedCache, 1, Len(cache) - 1)
      /\ sortedCache' = SubSeq(sortedCache, 1, Len(cache) - 1) /\ base' = base /\ iter' = iter
  BY Zenon DEF KVDiscard, top
<1>2. LevelsOK(cache', unsortedCache', sortedCache')
  BY <1>1, StkFacts, LevelsFront, Zenon
<1>3. KVInv'
  BY <1>1, <1>2, StkFacts, Zenon DEF KVInv
<1>4. Stack(base, SubSeq(cache, 1, Len(cache) - 1)) = SubSeq(Stack(base, cache), 1, Len(cache) - 1)
  BY <1>1, StkFacts, DiscardStack, Zenon
<1>5. Stk' = SubSeq(Stk, 1, Len(Stk) - 1) /\ Stk # <<>>
  BY <1>1, <1>4, StkFacts, Zenon DEF Stk
<1>6. base' = base /\ Rest' = Rest
  BY <1>1, Zenon DEF Rest
<1> QED
  BY <1>3, <1>5, <1>6, Abstractly, Zenon

\* Close ends the iteration.
LEMMA CloseStep ==
  ASSUME KVInv, KVClose
  PROVE  KVInv' /\ Branches!Close
<1>1. /\ iter # None /\ iter' = None /\ base' = base /\ cache' = cache
      /\ unsortedCache' = unsortedCache /\ sortedCache' = sortedCache
  BY Zenon DEF KVClose, cacheVars
<1>2. KVInv'
  BY <1>1, StkFacts, Zenon DEF KVInv
<1>3. Rest # None /\ Rest' = None
  <2>1. iter \in MergeIterator
    BY <1>1, StkFacts, Zenon
  <2>2. Drained[iter] \in Seq(Pair)
    BY <2>1, DrainedUnfold, Zenon
  <2>3. None \notin Seq(Pair)
    BY CacheAssumption, Zenon
  <2> QED
    BY <1>1, <2>2, <2>3, Zenon DEF Rest
<1>4. base' = base /\ Stk' = Stk
  BY <1>1, Zenon DEF Stk
<1> QED
  BY <1>2, <1>3, <1>4, Abstractly, Zenon

\* Next goes on to the next pair.
LEMMA StepStep ==
  ASSUME KVInv, KVStep
  PROVE  KVInv' /\ Branches!Step
<1>1. /\ iter # None /\ IterValid(iter) /\ iter' = IterNext(iter) /\ base' = base /\ cache' = cache
      /\ unsortedCache' = unsortedCache /\ sortedCache' = sortedCache
  BY Zenon DEF KVStep, cacheVars
<1>2. iter \in MergeIterator
  BY <1>1, StkFacts, Zenon
<1>3. IterNext(iter) \in MergeIterator /\ Current(iter) \in Pair
  BY <1>1, <1>2, NextSmaller, Zenon
<1>4. KVInv'
  BY <1>1, <1>3, StkFacts, Zenon DEF KVInv
<1>5. PICK d, e, x : d = Drained[iter] /\ e = Drained[IterNext(iter)] /\ x = Current(iter)
  BY Zenon
<1>6. d \in Seq(Pair) /\ e \in Seq(Pair) /\ x \in Pair /\ d = <<x>> \o e
  BY <1>1, <1>2, <1>3, <1>5, DrainedUnfold, Zenon
<1>7. d # <<>> /\ Tail(d) = e
  BY <1>6
<1>8. None \notin Seq(Pair) /\ None \notin MergeIterator
  BY CacheAssumption, Zenon
<1>9. Rest = d /\ Rest' = e
  BY <1>1, <1>3, <1>5, <1>8, Zenon DEF Rest
<1>10. base' = base /\ Stk' = Stk
  BY <1>1, Zenon DEF Stk
<1>11. Rest # None /\ Rest # <<>> /\ Rest' = Tail(Rest)
  BY <1>6, <1>7, <1>8, <1>9, Zenon
<1> QED
  BY <1>4, <1>10, <1>11, Abstractly, Zenon
\* Keys set in the topmost branch.
LEMMA SetTop ==
  ASSUME KVInv, Len(cache) > 0, NEW S \in SUBSET Keys, NEW v, Valued(S, v),
         SetCacheValues(Len(cache), S, v), base' = base, iter' = iter
  PROVE  /\ KVInv'
         /\ Stk # <<>> /\ Stk' = Put(Stk, Len(Stk), WithSet(S, v, TopMap)) /\ base' = base /\ Rest' = Rest
<1>0. /\ base \in Maps /\ cache \in Seq(Caches) /\ Len(cache) \in Nat /\ Len(cache) > 0
      /\ LevelsOK(cache, unsortedCache, sortedCache)
  BY StkFacts, Zenon
<1>1. PICK b \in Maps, c \in Seq(Caches), n \in Nat : b = base /\ c = cache /\ n = Len(c)
  BY <1>0, Zenon
<1>u. PICK u, t : u = unsortedCache /\ t = sortedCache
  BY Zenon
<1>2. n > 0 /\ LevelsOK(c, u, t)
  BY <1>0, <1>1, <1>u, Zenon
<1>3. PICK x : x = WithSet(S, v, c[n])
  BY Zenon
<1>4. cache' = Put(c, n, x) /\ unsortedCache' = Put(u, n, u[n] \cup S) /\ sortedCache' = t
  BY <1>1, <1>u, <1>3, Zenon DEF SetCacheValues, WithSet, Put
<1>5. n \in 1 .. Len(c)
  BY <1>1, <1>2
<1>6. x \in Caches /\ LevelsOK(Put(c, n, x), Put(u, n, u[n] \cup S), t)
  BY <1>1, <1>2, <1>3, <1>5, LevelsSet, Zenon
<1>7. LevelsOK(cache', unsortedCache', sortedCache')
  BY <1>4, <1>6, Zenon
<1>8. KVInv'
  BY <1>7, StkFacts, Zenon DEF KVInv
<1>9. Stack(b, Put(c, n, x)) = Put(Stack(b, c), n, WithSet(S, v, ReadThrough(b, c)[n]))
  BY <1>1, <1>2, <1>3, <1>6, SetStack, SMTT(20)
<1>10. ReadThrough(b, c)[n] = TopMap /\ n = Len(Stk) /\ Stk = Stack(b, c) /\ Stk # <<>>
  BY <1>0, <1>1, StkFacts, Zenon DEF Stk
<1>11. Stk' = Stack(b, Put(c, n, x))
  BY <1>1, <1>4, Zenon DEF Stk
<1>12. Stk' = Put(Stk, Len(Stk), WithSet(S, v, TopMap))
  BY <1>9, <1>10, <1>11, Zenon
<1>13. base' = base /\ Rest' = Rest
  BY Zenon DEF Rest
<1> QED
  BY <1>8, <1>10, <1>12, <1>13, Zenon

\* Set and Delete change one key of the topmost map.
LEMMA SetStep ==
  ASSUME KVInv, NEW k \in Keys, NEW v \in Values \cup {Nil}, KVSet(k, v)
  PROVE  KVInv' /\ Branches!Set(k, v)
<1>1. PICK S, m : S = {k} /\ m = [j \in {k} |-> v]
  BY Zenon
<1>2. /\ Len(cache) > 0 /\ SetCacheValues(Len(cache), S, m) /\ base' = base /\ iter' = iter
  BY <1>1, Zenon DEF KVSet, top
<1>3. S \in SUBSET Keys /\ m[k] = v /\ Valued(S, m)
  BY <1>1, Zenon DEF Valued
<1>4. PICK y : y = WithSet(S, m, TopMap)
  BY Zenon
<1>5. KVInv' /\ Stk # <<>> /\ Stk' = Put(Stk, Len(Stk), y) /\ base' = base /\ Rest' = Rest
  BY <1>2, <1>3, <1>4, SetTop, Zenon
<1>6. PICK w \in Maps : w = TopMap
  BY StkFacts, Zenon
<1>7. Put(w, k, v) = y
  <2>1. y = [j \in Keys |-> IF j \in {k} THEN m[j] ELSE w[j]]
    BY <1>1, <1>4, <1>6, Zenon DEF WithSet
  <2> QED
    BY <1>3, <2>1, Zenon DEF Maps, Put
<1>8. Put(TopMap, k, v) = y
  BY <1>6, <1>7, Zenon
<1> QED
  BY <1>5, <1>8, Abstractly, Zenon

\* GetAllKeyStrsInRange finds keys; if the range has an end, those that the
\* topmost branch holds.
LEMMA KeysFound ==
  ASSUME KVInv, NEW r \in Ranges
  PROVE  /\ GetAllKeyStrsInRange(r) \in SUBSET Keys
         /\ r.end # None =>
              GetAllKeyStrsInRange(r) = {k \in Keys : IsKeyInDomain(k, r) /\ GetFrom[top][k] # Nil}
<1>1. PICK b \in Maps, c \in Seq(Caches), n \in Nat : b = base /\ c = cache /\ n = Len(c)
  BY StkFacts, Zenon
<1>2. n \in 0 .. n
  BY <1>1
<1>3. GetAllKeyStrsInRange(r) = KeysThrough(b, c, r)[n] /\ GetFrom[top] = ReadThrough(b, c)[n]
  BY <1>1, Zenon DEF GetAllKeyStrsInRange, GetFrom, top
<1>4. KeysThrough(b, c, r)[n] \subseteq Keys
  <2>1. Finds(KeysThrough(b, c, r), b, c, r)
    BY KeysUnfold, Zenon
  <2> QED
    BY <1>1, <1>2, <2>1, Zenon DEF Finds
<1>5. ASSUME r.end # None
      PROVE  KeysThrough(b, c, r)[n] = {k \in Keys : IsKeyInDomain(k, r) /\ ReadThrough(b, c)[n][k] # Nil}
  <2>1. \A l \in 0 .. Len(c) :
          KeysThrough(b, c, r)[l] = {k \in Keys : IsKeyInDomain(k, r) /\ ReadThrough(b, c)[l][k] # Nil}
    BY <1>5, KeysRead, Zenon
  <2>2. n \in 0 .. Len(c)
    BY <1>1, <1>2, Zenon
  <2> QED
    BY <2>1, <2>2, Zenon
<1> QED
  BY <1>3, <1>4, <1>5, Zenon

\* DeleteAll deletes the keys of the range, if it has an end.
LEMMA DeleteAllStep ==
  ASSUME KVInv, NEW r \in Ranges, KVDeleteAll(r)
  PROVE  KVInv' /\ (r.end # None => Branches!DeleteAll(r))
<1>1. PICK S, m : S = GetAllKeyStrsInRange(r) /\ m = [k \in Keys |-> Nil]
  BY Zenon
<1>2. /\ Len(cache) > 0 /\ SetCacheValues(Len(cache), S, m) /\ base' = base /\ iter' = iter
  BY <1>1, Zenon DEF KVDeleteAll, top
<1>3. S \in SUBSET Keys
  BY <1>1, KeysFound, Zenon
<1>4. Valued(S, m)
  BY <1>1, <1>3, Zenon DEF Valued
<1>5. PICK y : y = WithSet(S, m, TopMap)
  BY Zenon
<1>6. KVInv' /\ Stk # <<>> /\ Stk' = Put(Stk, Len(Stk), y) /\ base' = base /\ Rest' = Rest
  BY <1>2, <1>3, <1>4, <1>5, SetTop, Zenon
<1>7. ASSUME r.end # None PROVE Branches!DeleteAll(r)
  <2>1. PICK w \in Maps : w = TopMap /\ w = GetFrom[top]
    BY StkFacts, Zenon DEF GetFrom, top
  <2>2. \A k \in Keys : k \in S <=> IsKeyInDomain(k, r) /\ w[k] # Nil
    BY <1>1, <1>7, <2>1, KeysFound, Zenon
  <2>3. \A k \in Keys : (IF k \in S THEN m[k] ELSE w[k]) = IF IsKeyInDomain(k, r) THEN Nil ELSE w[k]
    BY <1>1, <2>2, Zenon
  <2>4. y = [k \in Keys |-> IF IsKeyInDomain(k, r) THEN Nil ELSE w[k]]
    BY <1>5, <2>1, <2>3, Zenon DEF WithSet
  <2>5. y = [k \in Keys |-> IF IsKeyInDomain(k, r) THEN Nil ELSE TopMap[k]]
    BY <2>1, <2>4, Zenon
  <2> QED
    BY <1>6, <2>5, Abstractly, Zenon
<1> QED
  BY <1>6, <1>7, Zenon
\* An iterator is opened on what the topmost map holds; sorting changes no map.
LEMMA OpenStep ==
  ASSUME KVInv, NEW r \in Ranges, NEW ascending \in BOOLEAN, KVOpen(r, ascending)
  PROVE  KVInv' /\ Branches!Open(r, ascending)
<1>1. /\ Len(cache) > 0 /\ iter = None /\ iter' = Iterator(top, r, ascending) /\ base' = base /\ cache' = cache
      /\ unsortedCache' = [l \in 1 .. Len(cache) |-> unsortedCache[l] \ ToSort(l, r)]
      /\ sortedCache' = [l \in 1 .. Len(cache) |-> Sorted(l, r)]
  BY Zenon DEF KVOpen, top
<1>2. /\ base \in Maps /\ LevelsOK(cache, unsortedCache, sortedCache)
      /\ TopMap = ReadThrough(base, cache)[top] /\ Stk # <<>>
  BY <1>1, StkFacts, Zenon DEF top
<1>3. /\ unsortedCache' = [l \in 1 .. Len(cache) |-> unsortedCache[l] \ Marked(unsortedCache[l], r)]
      /\ sortedCache' = [l \in 1 .. Len(cache) |-> SortedOf(cache[l], unsortedCache[l], sortedCache[l], r)]
  BY <1>1, SortedIs, Zenon
<1>4. LevelsOK(cache', unsortedCache', sortedCache')
  <2>1. PICK c, u, t : c = cache /\ u = unsortedCache /\ t = sortedCache
    BY Zenon
  <2>2. LevelsOK(c, u, t)
    BY <1>2, <2>1, Zenon
  <2>3. LevelsOK(c, [l \in 1 .. Len(c) |-> u[l] \ Marked(u[l], r)],
                    [l \in 1 .. Len(c) |-> SortedOf(c[l], u[l], t[l], r)])
    BY <2>2, LevelsSorted, Zenon
  <2> QED
    BY <1>1, <1>3, <2>1, <2>3, Zenon
<1>5. iter' \in MergeIterator /\ Drained[iter'] = Contents(TopMap, r, ascending)
  <2>1. top > 0
    BY <1>1, Zenon DEF top
  <2> QED
    BY <1>1, <1>2, <2>1, IteratorGives, Zenon
<1>6. KVInv'
  BY <1>1, <1>2, <1>4, <1>5, Zenon DEF KVInv
<1>7. None \notin MergeIterator
  BY CacheAssumption, Zenon
<1>8. Rest = None /\ Rest' = Contents(TopMap, r, ascending)
  BY <1>1, <1>5, <1>7, Zenon DEF Rest
<1>9. base' = base /\ Stk' = Stk
  BY <1>1, Zenon DEF Stk
<1> QED
  BY <1>2, <1>6, <1>8, <1>9, Abstractly, Zenon

\* To the branch below.
LEMMA WriteBelow ==
  ASSUME KVInv, KVWrite, Len(cache) > 1
  PROVE  KVInv' /\ Branches!Write
<1>0. /\ base \in Maps /\ cache \in Seq(Caches) /\ Len(cache) \in Nat
      /\ LevelsOK(cache, unsortedCache, sortedCache) /\ iter \in MergeIterator \cup {None}
  BY StkFacts, Zenon
<1>1. PICK b \in Maps, c \in Seq(Caches), n \in Nat : b = base /\ c = cache /\ n = Len(c)
  BY <1>0, Zenon
<1>u. PICK u, t : u = unsortedCache /\ t = sortedCache
  BY Zenon
<1>2. n > 1 /\ LevelsOK(c, u, t)
  BY <1>0, <1>1, <1>u, Zenon
<1>3. PICK l \in 1 .. Len(c) : l = n - 1 /\ n \in 1 .. Len(c) /\ n # 1 /\ n > 0
  <2>1. n - 1 \in 1 .. n /\ n \in 1 .. n /\ n # 1 /\ n > 0
    BY <1>2
  <2> QED
    BY <1>1, <2>1, Zenon
<1>4. PICK D : D = {k \in Keys : c[n][k] # None}
  BY Zenon
<1>5. SetCacheValues(n - 1, D, c[n]) /\ base' = base /\ iter' = iter
  <2>1. top = n /\ top > 1
    BY <1>1, <1>2, Zenon DEF top
  <2>2. Dirty = D
    BY <1>1, <1>4, <2>1, Zenon DEF Dirty
  <2> QED
    BY <1>1, <2>1, <2>2, Zenon DEF KVWrite
<1>6. D \in SUBSET Keys /\ Valued(D, c[n])
  <2>1. c[n] \in Caches
    BY <1>3
  <2> QED
    BY <1>4, <2>1, Zenon DEF Caches, Valued
<1>7. PICK x : x = WithSet(D, c[n], c[l])
  BY Zenon
<1>8. cache' = Put(c, l, x) /\ unsortedCache' = Put(u, l, u[l] \cup D) /\ sortedCache' = t
  BY <1>1, <1>u, <1>3, <1>5, <1>7, Zenon DEF SetCacheValues, WithSet, Put
<1>9. x \in Caches /\ LevelsOK(Put(c, l, x), Put(u, l, u[l] \cup D), t)
  BY <1>2, <1>3, <1>6, <1>7, LevelsSet, Zenon
<1>10. KVInv'
  BY <1>0, <1>5, <1>8, <1>9, Zenon DEF KVInv
<1>11. x = Over(c[n], c[n - 1])
  BY <1>3, <1>4, <1>7, Zenon DEF WithSet, Over
<1>12. Stack(b, Put(c, n - 1, x)) = Put(Stack(b, c), n - 1, ReadThrough(b, c)[n])
  BY <1>1, <1>2, <1>9, <1>11, WriteStack, Zenon
<1>13. ReadThrough(b, c)[n] = TopMap /\ n = Len(Stk) /\ Stk = Stack(b, c) /\ Stk # <<>>
  BY <1>1, <1>3, StkFacts, Zenon DEF Stk
<1>14. Stk' = Put(Stk, Len(Stk) - 1, TopMap)
  <2>1. Stk' = Stack(b, Put(c, n - 1, x))
    BY <1>1, <1>3, <1>5, <1>8, Zenon DEF Stk
  <2> QED
    BY <1>12, <1>13, <2>1, Zenon
<1>15. base' = base /\ Rest' = Rest /\ Len(Stk) # 1
  BY <1>3, <1>5, <1>13, Zenon DEF Rest
<1> QED
  BY <1>10, <1>13, <1>14, <1>15, Abstractly, Zenon

\* To the base store.
LEMMA WriteToBase ==
  ASSUME KVInv, KVWrite, Len(cache) = 1
  PROVE  KVInv' /\ Branches!Write
<1>0. /\ base \in Maps /\ cache \in Seq(Caches) /\ LevelsOK(cache, unsortedCache, sortedCache)
      /\ iter \in MergeIterator \cup {None} /\ 1 > 0 /\ ~(1 > 1)
  BY StkFacts
<1>1. PICK b \in Maps, c \in Seq(Caches) : b = base /\ c = cache
  BY <1>0, Zenon
<1>2. PICK w : w = ReadThrough(b, c)[1]
  BY Zenon
<1>3. w \in Maps /\ w = Over(c[1], b) /\ Stack(w, c) = Stack(b, c)
  BY <1>1, <1>2, WriteBase, Zenon
<1>4. /\ base' = [k \in Keys |-> IF k \in Dirty THEN c[1][k] ELSE b[k]]
      /\ cache' = cache /\ unsortedCache' = unsortedCache /\ sortedCache' = sortedCache /\ iter' = iter
  BY <1>0, <1>1, Zenon DEF KVWrite, cacheVars, top
<1>5. Dirty = {k \in Keys : c[1][k] # None}
  BY <1>1, Zenon DEF Dirty, top
<1>6. base' = w
  BY <1>3, <1>4, <1>5, Zenon DEF Over
<1>7. KVInv'
  BY <1>0, <1>3, <1>4, <1>6, Zenon DEF KVInv
<1>8. w = TopMap /\ Len(Stk) = 1 /\ Stk # <<>>
  BY <1>0, <1>1, <1>2, StkFacts, Zenon
<1>9. Stk' = Stk
  BY <1>1, <1>3, <1>4, <1>6, Zenon DEF Stk
<1>10. Rest' = Rest
  BY <1>4, Zenon DEF Rest
<1> QED
  BY <1>6, <1>7, <1>8, <1>9, <1>10, Abstractly, Zenon
------------------------------------------------------------------------------
(* The theorems *)

\* At first there is no branch.
LEMMA KVInitially ==
  ASSUME KVInit
  PROVE  KVInv /\ Branches!Init
<1>1. base \in Maps
  BY CacheAssumption, Zenon DEF KVInit, Maps
<1>2. cache = <<>> /\ unsortedCache = <<>> /\ sortedCache = <<>> /\ iter = None
  BY Zenon DEF KVInit
<1>3. LevelsOK(<<>>, <<>>, <<>>)
  <2>1. Depth \in Nat
    BY CacheAssumption, Zenon
  <2> QED
    BY <2>1 DEF LevelsOK
<1>4. KVInv
  BY <1>1, <1>2, <1>3, Zenon DEF KVInv
<1>5. [l \in 1 .. top |-> GetFrom[l]] = <<>>
  BY <1>2 DEF top
<1>6. Branches!Init
  BY <1>1, <1>2, <1>5, Zenon DEF Branches!Init, Maps
<1> QED
  BY <1>4, <1>6, Zenon

\* Every step keeps the invariant, and is one of the abstract store if every
\* range that is deleted has an end.
LEMMA KVSteps ==
  ASSUME KVInv, [KVNext]_kvVars
  PROVE  /\ KVInv'
         /\ (\A r \in Ranges : r.end # None) => [Branches!Next]_(Branches!vars)
<1>1. CASE KVBranch
  BY <1>1, BranchStep, Zenon DEF Branches!Next
<1>2. CASE KVDiscard
  BY <1>2, DiscardStep, Zenon DEF Branches!Next
<1>3. CASE KVWrite
  <2>1. Len(cache) = 1 \/ Len(cache) > 1
    <3>1. Len(cache) \in Nat /\ Len(cache) > 0
      BY <1>3, StkFacts, Zenon DEF KVWrite, top
    <3>2. \A n \in Nat : n > 0 => n = 1 \/ n > 1
      OBVIOUS
    <3> QED
      BY <3>1, <3>2, Zenon
  <2> QED
    BY <1>3, <2>1, WriteBelow, WriteToBase, Zenon DEF Branches!Next
<1>4. CASE KVStep
  BY <1>4, StepStep, Zenon DEF Branches!Next
<1>5. CASE KVClose
  BY <1>5, CloseStep, Zenon DEF Branches!Next
<1>6. ASSUME NEW k \in Keys, NEW v \in Values \cup {Nil}, KVSet(k, v)
      PROVE  KVInv' /\ Branches!Next
  BY <1>6, SetStep, Zenon DEF Branches!Next
<1>7. ASSUME NEW r \in Ranges, KVDeleteAll(r)
      PROVE  KVInv' /\ ((\A q \in Ranges : q.end # None) => Branches!Next)
  BY <1>7, DeleteAllStep, Zenon DEF Branches!Next
<1>8. ASSUME NEW r \in Ranges, NEW ascending \in BOOLEAN, KVOpen(r, ascending)
      PROVE  KVInv' /\ Branches!Next
  BY <1>8, OpenStep, Zenon DEF Branches!Next
<1>9. CASE UNCHANGED kvVars
  <2>1. /\ base' = base /\ cache' = cache /\ unsortedCache' = unsortedCache
        /\ sortedCache' = sortedCache /\ iter' = iter
    BY <1>9, Zenon DEF kvVars, cacheVars
  <2>2. KVInv'
    BY <2>1, Zenon DEF KVInv
  <2>3. UNCHANGED Branches!vars
    BY <2>1, Zenon DEF Branches!vars, top, GetFrom
  <2> QED
    BY <2>2, <2>3, Zenon
<1> QED
  BY <1>1, <1>2, <1>3, <1>4, <1>5, <1>6, <1>7, <1>8, <1>9, Zenon DEF KVNext

\* The caches, the marks and the trees have their types, and every mark is of a
\* key that is set.
THEOREM TypesHold == KVSpec => []KVTypeOK
<1>1. KVInit => KVInv
  BY KVInitially, Zenon
<1>2. KVInv /\ [KVNext]_kvVars => KVInv'
  BY KVSteps, Zenon
<1>3. KVInv => KVTypeOK
  BY InvOfLevels, Zenon DEF KVInv
<1> QED
  BY <1>1, <1>2, <1>3, PTL DEF KVSpec

\* What the tree of a branch lacks of its cache is always marked: dirtyItems
\* sorts all that an iterator has to find.
THEOREM MarksSuffice == KVSpec => []TreesAreCurrent
<1>1. KVInit => KVInv
  BY KVInitially, Zenon
<1>2. KVInv /\ [KVNext]_kvVars => KVInv'
  BY KVSteps, Zenon
<1>3. KVInv => TreesAreCurrent
  BY InvOfLevels, Zenon DEF KVInv
<1> QED
  BY <1>1, <1>2, <1>3, PTL DEF KVSpec

\* GetAllKeyStrsInRange finds what an iterator gives, through any number of
\* branches, over a range that has an end.
THEOREM RangesFound == KVSpec => []KeysAreIterated
<1>1. KVInit => KVInv
  BY KVInitially, Zenon
<1>2. KVInv /\ [KVNext]_kvVars => KVInv'
  BY KVSteps, Zenon
<1>3. KVInv => KeysAreIterated
  BY KeysFound, Zenon DEF KeysAreIterated
<1> QED
  BY <1>1, <1>2, <1>3, PTL DEF KVSpec

\* The stack of caches implements a stack of maps, with iterators that give what
\* their store held when they were opened, for any keys, values, depth and
\* ranges, if every range has an end: DeleteAll with a nil end leaves the keys
\* that only a cache holds.
THEOREM BranchesAreMaps ==
  ASSUME \A r \in Ranges : r.end # None
  PROVE  KVSpec => ImplementsBranches
<1>1. KVInit => KVInv /\ Branches!Init
  BY KVInitially, Zenon
<1>2. KVInv /\ [KVNext]_kvVars => KVInv' /\ [Branches!Next]_(Branches!vars)
  BY KVSteps, Zenon
<1> QED
  BY <1>1, <1>2, PTL DEF KVSpec, ImplementsBranches, Branches!Spec
==============================================================================
