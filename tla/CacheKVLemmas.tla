---------------------------- MODULE CacheKVLemmas ----------------------------
(***************************************************************************)
(* What the iterators of cachekv.Store give: the merge iterator skips what *)
(* is deleted and gives the rest of the parent and the cache in order,     *)
(* each pair once; over all branches, what the topmost reads in the range. *)
(***************************************************************************)
EXTENDS CacheKV, FiniteSetTheorems, TLAPS

------------------------------------------------------------------------------
(* Recursion *)

\* A set of naturals that is not empty has a least element.
LEMMA LeastNatural ==
  ASSUME NEW S, S \subseteq Nat, S # {}
  PROVE  \E x \in S : \A y \in S : x <= y
<1> DEFINE R == OpToRel(<, Nat)
<1>1. \A x, y \in Nat : y < x => <<y, x>> \in R
  BY Zenon DEF OpToRel
<1>2. IsWellFoundedOn(R, Nat)
  BY NatLessThanWellFounded, Zenon
<1> HIDE DEF R
<1>3. PICK x \in S : \A y \in S : ~(<<y, x>> \in R)
  BY <1>2, WFMin, Zenon
<1>4. ASSUME NEW y \in S PROVE x <= y
  <2>1. x \in Nat /\ y \in Nat /\ ~(<<y, x>> \in R)
    BY <1>3, Zenon
  <2>2. ~(y < x)
    BY <1>1, <2>1, Zenon
  <2> QED
    BY <2>1, <2>2
<1> QED
  BY <1>4, Zenon

\* What holds of a natural whenever it holds of all smaller ones holds of all: a
\* set of naturals stands for the property.
LEMMA AllNaturals ==
  ASSUME NEW S, \A n \in Nat : (\A m \in Nat : m < n => m \in S) => n \in S
  PROVE  Nat \subseteq S
<1> SUFFICES ASSUME Nat \ S # {} PROVE FALSE
  BY Zenon
<1>1. PICK n \in Nat \ S : \A m \in Nat \ S : n <= m
  BY LeastNatural, Zenon
<1>2. \A m \in Nat : m < n => m \in S
  BY <1>1
<1> QED
  BY <1>1, <1>2, Zenon

\* A body B of a function from D to V uses the function on smaller arguments
\* only.
UsesSmaller(D, V, size, B) ==
  /\ \A x \in D, f \in [D -> V] : B[x][f] \in V
  /\ \A x \in D, f, g \in [D -> V] :
       (\A y \in D : size[y] < size[x] => f[y] = g[y]) => B[x][f] = B[x][g]

\* Some function from D to V has the body B.
HasSolution(D, V, B) == \E f \in [D -> V] : \A x \in D : f[x] = B[x][f]

\* A function is defined by a body that uses it on smaller arguments only.
LEMMA Recursion ==
  ASSUME NEW D, NEW V, NEW size \in [D -> Nat], NEW B, NEW v \in V,
         UsesSmaller(D, V, size, B)
  PROVE  HasSolution(D, V, B)
<1> /\ \A x \in D, f \in [D -> V] : B[x][f] \in V
    /\ \A x \in D, f, g \in [D -> V] :
         (\A y \in D : size[y] < size[x] => f[y] = g[y]) => B[x][f] = B[x][g]
  BY Zenon DEF UsesSmaller
<1> DEFINE Upto(n) == {f \in [D -> V] : \A x \in D : size[x] < n => f[x] = B[x][f]}
           S == {n \in Nat : Upto(n) # {}}
<1>1. ASSUME NEW n \in Nat, \A m \in Nat : m < n => m \in S PROVE n \in S
  <2>1. CASE n = 0
    <3>1. [x \in D |-> v] \in Upto(0)
      OBVIOUS
    <3> QED
      BY <2>1, <3>1, Zenon
  <2>2. CASE n # 0
    <3>1. PICK f \in Upto(n - 1) : TRUE
      BY <1>1, <2>2
    <3> DEFINE g == [x \in D |-> B[x][f]]
    <3>2. g \in [D -> V] /\ \A x \in D : size[x] < n - 1 => g[x] = f[x]
      BY <3>1, Zenon
    <3>3. ASSUME NEW x \in D, size[x] < n PROVE g[x] = B[x][g]
      <4>1. \A y \in D : size[y] < size[x] => f[y] = g[y]
        BY <3>2, <3>3
      <4> QED
        BY <3>1, <3>2, <4>1, Zenon
    <3> QED
      BY <3>2, <3>3, Zenon
  <2> QED
    BY <2>1, <2>2, Zenon
<1>2. \A n \in Nat : Upto(n) # {}
  <2> HIDE DEF Upto
  <2>1. Nat \subseteq S
    <3> HIDE DEF S
    <3> QED
      BY <1>1, AllNaturals, Zenon
  <2> QED
    BY <2>1, Zenon
<1>3. ASSUME NEW n \in Nat, NEW m \in Nat, NEW f \in Upto(n), NEW g \in Upto(m)
      PROVE  \A x \in D : size[x] < n /\ size[x] < m => f[x] = g[x]
  <2> DEFINE T == {k \in Nat : \A x \in D : size[x] = k /\ k < n /\ k < m => f[x] = g[x]}
  <2>1. ASSUME NEW k \in Nat, \A j \in Nat : j < k => j \in T PROVE k \in T
    <3> SUFFICES ASSUME NEW x \in D, size[x] = k, k < n, k < m PROVE f[x] = g[x]
      BY Zenon
    <3>1. \A y \in D : size[y] < size[x] => f[y] = g[y]
      BY <2>1
    <3>2. B[x][f] = B[x][g]
      BY <3>1, Zenon
    <3> QED
      BY <3>2, Zenon
  <2>2. Nat \subseteq T
    <3> HIDE DEF T
    <3> QED
      BY <2>1, AllNaturals, Zenon
  <2> QED
    BY <2>2, Zenon
<1> DEFINE Pick(x) == CHOOSE f \in Upto(size[x] + 1) : TRUE
           F == [x \in D |-> Pick(x)[x]]
<1>4. \A x \in D : Pick(x) \in Upto(size[x] + 1)
  <2> HIDE DEF Upto
  <2> QED
    BY <1>2
<1> HIDE DEF Pick
<1>5. F \in [D -> V]
  BY <1>4, Zenon
<1>6. ASSUME NEW x \in D PROVE F[x] = B[x][F]
  <2>1. \A y \in D : size[y] < size[x] => Pick(x)[y] = F[y]
    <3> SUFFICES ASSUME NEW y \in D, size[y] < size[x] PROVE Pick(x)[y] = Pick(y)[y]
      BY Zenon
    <3>1. Pick(x) \in Upto(size[x] + 1) /\ Pick(y) \in Upto(size[y] + 1)
      BY <1>4, Zenon
    <3> HIDE DEF Upto
    <3> QED
      BY <1>3, <3>1
  <2>2. Pick(x) \in [D -> V] /\ Pick(x)[x] = B[x][Pick(x)]
    BY <1>4
  <2>3. B[x][Pick(x)] = B[x][F]
    BY <1>5, <2>1, <2>2, Zenon
  <2> QED
    BY <2>2, <2>3, Zenon
<1> QED
  BY <1>5, <1>6, Zenon DEF HasSolution
------------------------------------------------------------------------------
(* Sequences in the order of their keys *)

\* One key comes before another in the direction of an iterator.
Before(ascending, a, b) == IF ascending THEN a < b ELSE a > b

InOrder(s, ascending) == \A m, n \in 1 .. Len(s) : m < n => Before(ascending, s[m].key, s[n].key)

Elements(s) == {s[n] : n \in 1 .. Len(s)}

\* Keys are naturals, and finitely many.
LEMMA KeyFacts == IsFiniteSet(Keys) /\ Keys \subseteq Nat
BY CacheAssumption, Zenon

\* So are the keys of the pairs in a sequence.
LEMMA SeqKeys ==
  ASSUME NEW s \in Seq(Pair)
  PROVE  Len(s) \in Nat /\ \A n \in 1 .. Len(s) : s[n] \in Pair /\ s[n].key \in Nat
<1>1. \A p \in Pair : p.key \in Nat
  BY KeyFacts, Zenon DEF Pair
<1>2. Len(s) \in Nat /\ \A n \in 1 .. Len(s) : s[n] \in Pair
  OBVIOUS
<1> QED
  BY <1>1, <1>2, Zenon

\* A sequence has the keys of a set, each once, in order.
Lists(o, S, ascending) ==
  /\ Cardinality(S) \in Nat /\ DOMAIN o = 1 .. Cardinality(S)
  /\ \A n \in 1 .. Cardinality(S) : o[n] \in S
  /\ \A m, n \in 1 .. Cardinality(S) : m < n => Before(ascending, o[m], o[n])
  /\ \A k \in S : \E n \in 1 .. Cardinality(S) : o[n] = k

\* Ordered lists the keys of a finite set in the order asked for.
LEMMA OrderedKeys ==
  ASSUME NEW S, S \subseteq Nat, IsFiniteSet(S), NEW ascending \in BOOLEAN
  PROVE  Lists(Ordered(S, ascending), S, ascending)
<1> DEFINE Upto(k) == {j \in S : IF ascending THEN j <= k ELSE j >= k}
           rank == [k \in S |-> Cardinality(Upto(k))]
           c == Cardinality(S)
<1>1. c \in Nat
  BY FS_CardinalityType, Zenon
<1>2. ASSUME NEW k \in S
      PROVE  IsFiniteSet(Upto(k)) /\ Cardinality(Upto(k)) \in 1 .. c
  <2>1. k \in Upto(k) /\ Upto(k) \in SUBSET S
    OBVIOUS
  <2> HIDE DEF Upto
  <2>2. IsFiniteSet(Upto(k)) /\ Cardinality(Upto(k)) <= c
    BY <2>1, FS_Subset, Zenon
  <2>3. Cardinality(Upto(k)) \in Nat /\ Cardinality(Upto(k)) # 0
    BY <2>1, <2>2, FS_CardinalityType, FS_EmptySet, Zenon
  <2> QED
    BY <1>1, <2>2, <2>3
<1>3. ASSUME NEW k \in S, NEW j \in S, Before(ascending, k, j)
      PROVE  rank[k] < rank[j]
  <2>1. Upto(k) \in SUBSET Upto(j) /\ Upto(k) # Upto(j)
    <3>1. j \in Upto(j) /\ j \notin Upto(k)
      BY <1>3 DEF Before
    <3>2. ASSUME NEW i \in Upto(k) PROVE i \in Upto(j)
      <4>1. i \in Nat /\ j \in Nat /\ k \in Nat
        BY Zenon
      <4> QED
        BY <1>3, <4>1 DEF Before
    <3> HIDE DEF Upto
    <3> QED
      BY <3>1, <3>2, Zenon
  <2> HIDE DEF Upto
  <2>2. Cardinality(Upto(k)) <= Cardinality(Upto(j)) /\ Cardinality(Upto(j)) # Cardinality(Upto(k))
    BY <1>2, <2>1, FS_Subset, Zenon
  <2> QED
    BY <1>2, <2>2
<1> \A k, j \in S : Before(ascending, k, j) => rank[k] < rank[j]
  BY <1>3, Zenon
<1>4. \A k, j \in S : k = j \/ Before(ascending, k, j) \/ Before(ascending, j, k)
  BY DEF Before
<1> HIDE DEF Upto
<1>5. rank \in [S -> 1 .. c]
  BY <1>2, Zenon
<1>6. rank \in Injection(S, 1 .. c)
  <2>1. \A k, j \in S : rank[k] = rank[j] => k = j
    BY <1>1, <1>4, <1>5
  <2> QED
    BY <1>5, <2>1, Zenon DEF Injection, IsInjective
<1>7. rank \in Surjection(S, 1 .. c)
  <2>1. IsFiniteSet(1 .. c) /\ Cardinality(1 .. c) = c
    BY <1>1, FS_Interval
  <2> HIDE DEF rank
  <2> QED
    BY <1>6, <2>1, FS_Injection, Zenon
<1>8. \A n \in 1 .. c : \E k \in S : n = Cardinality(Upto(k))
  BY <1>7, Zenon DEF Surjection
<1>9. /\ DOMAIN Ordered(S, ascending) = 1 .. c
      /\ \A n \in 1 .. c : /\ Ordered(S, ascending)[n] \in S
                           /\ n = Cardinality(Upto(Ordered(S, ascending)[n]))
  <2>1. Ordered(S, ascending) = [n \in 1 .. c |-> CHOOSE k \in S : n = Cardinality(Upto(k))]
    BY Zenon DEF Ordered, Upto
  <2> QED
    BY <1>8, <2>1, Zenon
<1> DEFINE o == Ordered(S, ascending)
<1> HIDE DEF o
<1>10. \A n \in 1 .. c : o[n] \in S /\ rank[o[n]] = n
  BY <1>9, Zenon DEF o
<1>11. ASSUME NEW m \in 1 .. c, NEW n \in 1 .. c, m < n PROVE Before(ascending, o[m], o[n])
  <2>1. o[m] # o[n] /\ ~Before(ascending, o[n], o[m])
    <3> HIDE DEF rank
    <3>1. o[m] \in S /\ o[n] \in S /\ rank[o[m]] = m /\ rank[o[n]] = n
      BY <1>10, Zenon
    <3>2. ~(rank[o[n]] < rank[o[m]]) /\ rank[o[n]] # rank[o[m]]
      BY <1>1, <1>11, <3>1
    <3> QED
      BY <3>1, <3>2, Zenon
  <2> QED
    BY <1>4, <1>10, <2>1, Zenon
<1>12. ASSUME NEW k \in S PROVE \E n \in 1 .. c : o[n] = k
  <2>1. rank[k] \in 1 .. c /\ rank[o[rank[k]]] = rank[k] /\ o[rank[k]] \in S
    BY <1>5, <1>10, Zenon
  <2>2. o[rank[k]] = k
    BY <1>6, <2>1, Zenon DEF Injection, IsInjective
  <2> QED
    BY <2>1, <2>2, Zenon
<1> QED
  BY <1>1, <1>9, <1>10, <1>11, <1>12, Zenon DEF o, Lists

\* A sequence has a pair for each key of a set, in order.
ListsPairs(s, map, S, ascending) ==
  /\ s \in Seq(Pair) /\ InOrder(s, ascending)
  /\ Elements(s) = {[key |-> k, value |-> map[k]] : k \in S}

\* What Pairs lists.
LEMMA PairsInOrder ==
  ASSUME NEW S, S \subseteq Keys, NEW map, \A k \in S : map[k] \in Values \cup {Nil},
         NEW ascending \in BOOLEAN
  PROVE  ListsPairs(Pairs(map, S, ascending), map, S, ascending)
<1> DEFINE o == Ordered(S, ascending)
           c == Cardinality(S)
<1>1. /\ c \in Nat /\ DOMAIN o = 1 .. c
      /\ \A n \in 1 .. c : o[n] \in S
      /\ \A m, n \in 1 .. c : m < n => Before(ascending, o[m], o[n])
      /\ \A k \in S : \E n \in 1 .. c : o[n] = k
  <2>1. IsFiniteSet(S) /\ S \subseteq Nat
    BY KeyFacts, FS_Subset, Zenon
  <2>2. Lists(Ordered(S, ascending), S, ascending)
    BY <2>1, OrderedKeys, Zenon
  <2> QED
    BY <2>2, Zenon DEF Lists
<1> DEFINE s == [n \in 1 .. c |-> [key |-> o[n], value |-> map[o[n]]]]
<1>2. Pairs(map, S, ascending) = s
  BY <1>1, Zenon DEF Pairs
<1> HIDE DEF o, c
<1>3. s \in Seq(Pair) /\ Len(s) = c
  <2>1. \A n \in 1 .. c : s[n] \in Pair
    BY <1>1, Zenon DEF Pair
  <2> QED
    BY <1>1, <2>1
<1>4. InOrder(s, ascending)
  BY <1>1, <1>3, Zenon DEF InOrder
<1>5. Elements(s) = {[key |-> k, value |-> map[k]] : k \in S}
  <2>1. \A n \in 1 .. c : s[n] = [key |-> o[n], value |-> map[o[n]]]
    BY Zenon
  <2> HIDE DEF s
  <2> QED
    BY <1>1, <1>3, <2>1 DEF Elements
<1> QED
  BY <1>2, <1>3, <1>4, <1>5, Zenon DEF ListsPairs

\* Of two sequences in order with the same pairs, the first is an initial part of
\* the second.
LEMMA OrderDecides ==
  ASSUME NEW ascending \in BOOLEAN, NEW s \in Seq(Pair), NEW t \in Seq(Pair),
         InOrder(s, ascending), InOrder(t, ascending), Elements(s) = Elements(t)
  PROVE  \A n \in 1 .. Len(s) : n \in 1 .. Len(t) /\ s[n] = t[n]
<1> DEFINE S == {n \in Nat : n \in 1 .. Len(s) => n \in 1 .. Len(t) /\ s[n] = t[n]}
<1>1. ASSUME NEW n \in Nat, \A m \in Nat : m < n => m \in S PROVE n \in S
  <2> SUFFICES ASSUME n \in 1 .. Len(s) PROVE n \in 1 .. Len(t) /\ s[n] = t[n]
    BY Zenon
  <2> Len(s) \in Nat /\ Len(t) \in Nat
    BY SeqKeys, Zenon
  <2>1. \A m \in 1 .. Len(s) : m < n => m \in 1 .. Len(t) /\ s[m] = t[m]
    BY <1>1
  <2>2. \A m \in 1 .. Len(s) : s[m].key \in Nat
    BY SeqKeys, Zenon
  <2>3. \A m \in 1 .. Len(t) : t[m].key \in Nat
    BY SeqKeys, Zenon
  <2>4. PICK m \in 1 .. Len(t) : s[n] = t[m]
    BY Zenon DEF Elements
  <2>5. m >= n
    <3> SUFFICES ASSUME m < n PROVE FALSE
      OBVIOUS
    <3>1. s[m] = t[m] /\ m \in 1 .. Len(s)
      BY <2>1
    <3> QED
      BY <2>2, <2>4, <3>1 DEF InOrder, Before
  <2>6. n \in 1 .. Len(t)
    BY <2>5
  <2>7. PICK j \in 1 .. Len(s) : t[n] = s[j]
    BY <2>6, Zenon DEF Elements
  <2>8. j >= n
    <3> SUFFICES ASSUME j < n PROVE FALSE
      OBVIOUS
    <3>1. s[j] = t[j] /\ j \in 1 .. Len(t)
      BY <2>1, Zenon
    <3> QED
      BY <2>3, <2>6, <2>7, <3>1 DEF InOrder, Before
  <2>9. m = n
    <3> SUFFICES ASSUME m > n PROVE FALSE
      BY <2>5
    <3>1. Before(ascending, t[n].key, s[n].key)
      BY <2>4, <2>6, Zenon DEF InOrder
    <3>2. j = n \/ Before(ascending, s[n].key, t[n].key)
      BY <2>7, <2>8 DEF InOrder
    <3> QED
      BY <2>2, <2>3, <2>6, <2>7, <3>1, <3>2 DEF Before
  <2> QED
    BY <2>4, <2>6, <2>9, Zenon
<1>2. Nat \subseteq S
  <2> HIDE DEF S
  <2> QED
    BY <1>1, AllNaturals, Zenon
<1> QED
  BY <1>2

\* There is one sequence of given pairs in a given order.
LEMMA OneOrder ==
  ASSUME NEW ascending \in BOOLEAN, NEW s \in Seq(Pair), NEW t \in Seq(Pair),
         InOrder(s, ascending), InOrder(t, ascending), Elements(s) = Elements(t)
  PROVE  s = t
<1>1. \A n \in 1 .. Len(s) : n \in 1 .. Len(t) /\ s[n] = t[n]
  BY OrderDecides, Zenon
<1>2. \A n \in 1 .. Len(t) : n \in 1 .. Len(s) /\ s[n] = t[n]
  BY OrderDecides
<1>3. Len(s) = Len(t)
  <2>1. Len(s) \in Nat /\ Len(t) \in Nat
    OBVIOUS
  <2>2. Len(s) <= Len(t)
    BY <1>1, <2>1
  <2>3. Len(t) <= Len(s)
    BY <1>2, <2>1
  <2> QED
    BY <2>1, <2>2, <2>3
<1> QED
  BY <1>1, <1>3
------------------------------------------------------------------------------
(* Merge iterators: what is skipped *)

\* What iterators have still to give is a sequence of pairs.
LEMMA IterFields ==
  ASSUME NEW it \in MergeIterator
  PROVE  /\ it.parent \in Seq(Pair) /\ it.cache \in Seq(Pair) /\ it.ascending \in BOOLEAN
         /\ Len(it.parent) \in Nat /\ Len(it.cache) \in Nat
BY DEF MergeIterator

\* An iterator of which the sequences are replaced.
LEMMA IterWith ==
  ASSUME NEW it \in MergeIterator, NEW p \in Seq(Pair), NEW c \in Seq(Pair)
  PROVE  /\ [it EXCEPT !.parent = p] \in MergeIterator
         /\ [it EXCEPT !.parent = p].parent = p /\ [it EXCEPT !.parent = p].cache = it.cache
         /\ [it EXCEPT !.parent = p].ascending = it.ascending
         /\ [it EXCEPT !.cache = c] \in MergeIterator
         /\ [it EXCEPT !.cache = c].parent = it.parent /\ [it EXCEPT !.cache = c].cache = c
         /\ [it EXCEPT !.cache = c].ascending = it.ascending
         /\ [it EXCEPT !.parent = p, !.cache = c] \in MergeIterator
         /\ [it EXCEPT !.parent = p, !.cache = c].parent = p
         /\ [it EXCEPT !.parent = p, !.cache = c].cache = c
         /\ [it EXCEPT !.parent = p, !.cache = c].ascending = it.ascending
BY Zenon DEF MergeIterator

\* How many pairs an iterator has at most to look at.
Size(it) == Len(it.parent) + Len(it.cache)

\* An iterator that lacks pairs of another is smaller.
LEMMA Smaller ==
  ASSUME NEW it \in MergeIterator, NEW x \in MergeIterator
  PROVE  /\ Size(it) \in Nat
         /\ Len(x.parent) <= Len(it.parent) /\ Len(x.cache) <= Len(it.cache) => Size(x) <= Size(it)
         /\ /\ Len(x.parent) <= Len(it.parent) /\ Len(x.cache) <= Len(it.cache)
            /\ Len(x.parent) < Len(it.parent) \/ Len(x.cache) < Len(it.cache)
            => Size(x) < Size(it)
<1>1. PICK a \in Nat, b \in Nat : a = Len(it.parent) /\ b = Len(it.cache)
  BY IterFields, Zenon
<1>2. PICK c \in Nat, d \in Nat : c = Len(x.parent) /\ d = Len(x.cache)
  BY IterFields, Zenon
<1>3. Size(it) = a + b /\ Size(x) = c + d
  BY <1>1, <1>2, Zenon DEF Size
<1>4. a + b \in Nat /\ (c <= a /\ d <= b => c + d <= a + b) /\ (c <= a /\ d <= b /\ (c < a \/ d < b) => c + d < a + b)
  OBVIOUS
<1> QED
  BY <1>1, <1>2, <1>3, <1>4, Zenon

\* The first pair of a sequence in order and the others.
LEMMA HeadAndTail ==
  ASSUME NEW s \in Seq(Pair), s # <<>>
  PROVE  /\ Len(s) \in Nat \ {0} /\ Head(s) = s[1] /\ Head(s) \in Pair
         /\ Tail(s) \in Seq(Pair) /\ Len(Tail(s)) = Len(s) - 1
         /\ \A n \in 1 .. Len(Tail(s)) : Tail(s)[n] = s[n + 1]
<1>1. Len(s) \in Nat \ {0}
  OBVIOUS
<1> QED
  BY <1>1

\* SkipCacheDeletes drops the deletes at the start that are before the parent's
\* pair, and no more.
LEMMA DeletesSkipped ==
  ASSUME NEW it \in MergeIterator
  PROVE  \E j \in 0 .. Len(it.cache) :
           /\ SkipCacheDeletes(it) = SubSeq(it.cache, j + 1, Len(it.cache))
           /\ \A n \in 1 .. j : Skipped(it, n)
           /\ j < Len(it.cache) => ~Skipped(it, j + 1)
<1> DEFINE Kept == {n \in 1 .. Len(it.cache) : ~Skipped(it, n)}
<1> it.cache \in Seq(Pair) /\ Len(it.cache) \in Nat /\ DOMAIN it.cache = 1 .. Len(it.cache)
  BY IterFields
<1>1. SkipCacheDeletes(it) = IF Kept = {} THEN <<>> ELSE SubSeq(it.cache, Min(Kept), Len(it.cache))
  BY Zenon DEF SkipCacheDeletes
<1>2. CASE Kept = {}
  <2>1. SubSeq(it.cache, Len(it.cache) + 1, Len(it.cache)) = <<>>
    OBVIOUS
  <2>2. \A n \in 1 .. Len(it.cache) : Skipped(it, n)
    BY <1>2, Zenon
  <2>3. SkipCacheDeletes(it) = SubSeq(it.cache, Len(it.cache) + 1, Len(it.cache))
    BY <1>1, <1>2, <2>1, Zenon
  <2>4. Len(it.cache) \in 0 .. Len(it.cache) /\ ~(Len(it.cache) < Len(it.cache))
    OBVIOUS
  <2> QED
    BY <2>2, <2>3, <2>4, Zenon
<1>3. CASE Kept # {}
  <2>1. Min(Kept) \in Kept /\ \A n \in Kept : Min(Kept) <= n
    <3>1. \E x \in Kept : \A y \in Kept : x <= y
      <4>1. Kept \subseteq Nat
        OBVIOUS
      <4> HIDE DEF Kept
      <4> QED
        BY <1>3, <4>1, LeastNatural, Zenon
    <3> HIDE DEF Kept
    <3> QED
      BY <3>1, Zenon DEF Min
  <2>2. PICK m : m = Min(Kept)
    BY Zenon
  <2>3. m \in 1 .. Len(it.cache) /\ ~Skipped(it, m) /\ \A n \in Kept : m <= n
    BY <2>1, <2>2, Zenon
  <2>4. \A n \in 1 .. (m - 1) : Skipped(it, n)
    BY <2>3
  <2>5. m - 1 \in 0 .. Len(it.cache) /\ (m - 1) + 1 = m
    BY <2>3
  <2>6. SkipCacheDeletes(it) = SubSeq(it.cache, m, Len(it.cache))
    BY <1>1, <1>3, <2>2, Zenon
  <2> HIDE DEF Kept
  <2> QED
    BY <2>3, <2>4, <2>5, <2>6, Zenon
<1> QED
  BY <1>2, <1>3, Zenon

\* So it leaves a sequence that is no longer, and shorter if the first is
\* dropped.
LEMMA SkippedSize ==
  ASSUME NEW it \in MergeIterator
  PROVE  /\ SkipCacheDeletes(it) \in Seq(Pair)
         /\ Len(SkipCacheDeletes(it)) <= Len(it.cache)
         /\ it.cache # <<>> /\ Skipped(it, 1) => Len(SkipCacheDeletes(it)) < Len(it.cache)
<1>1. PICK j \in 0 .. Len(it.cache) :
           /\ SkipCacheDeletes(it) = SubSeq(it.cache, j + 1, Len(it.cache))
           /\ \A n \in 1 .. j : Skipped(it, n)
           /\ j < Len(it.cache) => ~Skipped(it, j + 1)
  BY DeletesSkipped, Zenon
<1> it.cache \in Seq(Pair) /\ Len(it.cache) \in Nat
  BY IterFields, Zenon
<1>2. /\ SubSeq(it.cache, j + 1, Len(it.cache)) \in Seq(Pair)
      /\ Len(SubSeq(it.cache, j + 1, Len(it.cache))) = Len(it.cache) - j
  OBVIOUS
<1>3. it.cache # <<>> /\ Skipped(it, 1) => j # 0
  <2>1. it.cache # <<>> => Len(it.cache) > 0
    OBVIOUS
  <2> QED
    BY <1>1, <2>1
<1> QED
  BY <1>1, <1>2, <1>3

\* Each round of skipUntilExistsOrInvalid drops something.
LEMMA DeletedSmaller ==
  ASSUME NEW it \in MergeIterator, it.parent # <<>>, ~Exists(it)
  PROVE  /\ SkipDeleted(it) \in MergeIterator
         /\ SkipDeleted(it).ascending = it.ascending
         /\ Size(SkipDeleted(it)) < Size(it)
<1> /\ it.parent \in Seq(Pair) /\ it.cache \in Seq(Pair) /\ it.ascending \in BOOLEAN
    /\ Len(it.parent) \in Nat /\ Len(it.cache) \in Nat
  BY IterFields, Zenon
<1>1. it.cache # <<>> /\ Head(it.cache).value = Nil
  BY Zenon DEF Exists
<1>2. CASE Head(it.parent).key = Head(it.cache).key
  <2>1. /\ Tail(it.parent) \in Seq(Pair) /\ Tail(it.cache) \in Seq(Pair)
        /\ Len(Tail(it.parent)) = Len(it.parent) - 1 /\ Len(Tail(it.cache)) = Len(it.cache) - 1
    BY <1>1, HeadAndTail, Zenon
  <2>2. SkipDeleted(it) = [it EXCEPT !.parent = Tail(it.parent), !.cache = Tail(it.cache)]
    BY <1>2, Zenon DEF SkipDeleted, MergeIterator
  <2>3. /\ SkipDeleted(it) \in MergeIterator
        /\ SkipDeleted(it).parent = Tail(it.parent) /\ SkipDeleted(it).cache = Tail(it.cache)
        /\ SkipDeleted(it).ascending = it.ascending
    BY <2>1, <2>2, Zenon DEF MergeIterator
  <2>4. /\ Len(Tail(it.parent)) <= Len(it.parent) /\ Len(Tail(it.cache)) <= Len(it.cache)
        /\ Len(Tail(it.parent)) < Len(it.parent)
    BY <2>1
  <2>5. Size(SkipDeleted(it)) < Size(it)
    BY <2>3, <2>4, Smaller, Zenon
  <2> QED
    BY <2>3, <2>5, Zenon
<1>3. CASE Head(it.parent).key # Head(it.cache).key
  <2>1. /\ Head(it.parent) = it.parent[1] /\ Head(it.cache) = it.cache[1]
        /\ Head(it.parent).key \in Nat /\ Head(it.cache).key \in Nat
    <3>1. 1 \in 1 .. Len(it.parent) /\ 1 \in 1 .. Len(it.cache)
      BY <1>1
    <3> QED
      BY <1>1, <3>1, HeadAndTail, SeqKeys, Zenon
  <2>2. Skipped(it, 1)
    BY <1>1, <1>3, <2>1 DEF Exists, Skipped, Comes
  <2>3. SkipDeleted(it) = [it EXCEPT !.cache = SkipCacheDeletes(it)]
    BY <1>3, Zenon DEF SkipDeleted
  <2>4. SkipCacheDeletes(it) \in Seq(Pair) /\ Len(SkipCacheDeletes(it)) < Len(it.cache)
        /\ Len(SkipCacheDeletes(it)) \in Nat
    BY <1>1, <2>2, SkippedSize
  <2>5. /\ SkipDeleted(it) \in MergeIterator
        /\ SkipDeleted(it).parent = it.parent /\ SkipDeleted(it).cache = SkipCacheDeletes(it)
        /\ SkipDeleted(it).ascending = it.ascending
    BY <2>3, <2>4, Zenon DEF MergeIterator
  <2>6. Size(SkipDeleted(it)) < Size(it)
    <3>1. Len(it.parent) <= Len(it.parent) /\ Len(SkipCacheDeletes(it)) <= Len(it.cache)
      BY <2>4
    <3> QED
      BY <2>4, <2>5, <3>1, Smaller, Zenon
  <2> QED
    BY <2>5, <2>6, Zenon
<1> QED
  BY <1>2, <1>3

\* The equation of skipUntilExistsOrInvalid has a solution.
LEMMA SkipUnfold ==
  /\ SkipUntilExistsOrInvalid \in [MergeIterator -> MergeIterator]
  /\ \A it \in MergeIterator :
       SkipUntilExistsOrInvalid[it] =
         IF it.parent = <<>> THEN [it EXCEPT !.cache = SkipCacheDeletes(it)]
         ELSE IF Exists(it) THEN it
         ELSE SkipUntilExistsOrInvalid[SkipDeleted(it)]
  /\ \A it \in MergeIterator : Size(SkipUntilExistsOrInvalid[it]) <= Size(it)
<1> DEFINE MI == MergeIterator
           size == [it \in MI |-> Size(it)]
           B == [it \in MI |-> [f \in [MI -> MI] |->
                  IF it.parent = <<>> THEN [it EXCEPT !.cache = SkipCacheDeletes(it)]
                  ELSE IF Exists(it) THEN it ELSE f[SkipDeleted(it)]]]
           v == [parent |-> <<>>, cache |-> <<>>, ascending |-> TRUE]
<1>1. size \in [MI -> Nat]
  <2>1. \A it \in MI : Size(it) \in Nat
    BY Smaller, Zenon
  <2> QED
    BY <2>1, Zenon
<1>2. v \in MI
  BY DEF MergeIterator
<1>3. ASSUME NEW it \in MI
      PROVE  [it EXCEPT !.cache = SkipCacheDeletes(it)] \in MI
  BY <1>3, SkippedSize, IterWith, IterFields, Zenon
<1>4. ASSUME NEW it \in MI, NEW f \in [MI -> MI]
      PROVE  B[it][f] = IF it.parent = <<>> THEN [it EXCEPT !.cache = SkipCacheDeletes(it)]
                        ELSE IF Exists(it) THEN it ELSE f[SkipDeleted(it)]
  BY Zenon
<1>5. ASSUME NEW it \in MI, NEW f \in [MI -> MI]
      PROVE  B[it][f] \in MI
  BY <1>3, <1>4, DeletedSmaller, Zenon
<1>6. ASSUME NEW it \in MI, NEW f \in [MI -> MI], NEW g \in [MI -> MI],
             \A y \in MI : size[y] < size[it] => f[y] = g[y]
      PROVE  B[it][f] = B[it][g]
  <2>1. ~(it.parent = <<>>) /\ ~Exists(it) => f[SkipDeleted(it)] = g[SkipDeleted(it)]
    BY <1>6, DeletedSmaller, Zenon
  <2> HIDE DEF B
  <2> QED
    BY <1>4, <2>1, Zenon
<1>7. \E f \in [MI -> MI] : \A it \in MI : f[it] = B[it][f]
  <2>1. \A it \in MI, f \in [MI -> MI] : B[it][f] \in MI
    BY <1>5, Zenon
  <2>2. \A it \in MI, f, g \in [MI -> MI] :
          (\A y \in MI : size[y] < size[it] => f[y] = g[y]) => B[it][f] = B[it][g]
    BY <1>6, Zenon
  <2>3. UsesSmaller(MI, MI, size, B)
    BY <2>1, <2>2, Zenon DEF UsesSmaller
  <2>4. HasSolution(MI, MI, B)
    <3> HIDE DEF MI, size, B, v
    <3> QED
      BY <1>1, <1>2, <2>3, Recursion, Zenon
  <2> QED
    BY <2>4, Zenon DEF HasSolution
<1>8. PICK f \in [MI -> MI] : \A it \in MI : f[it] = B[it][f]
  BY <1>7, Zenon
<1>9. f = [it \in MI |-> IF it.parent = <<>> THEN [it EXCEPT !.cache = SkipCacheDeletes(it)]
                         ELSE IF Exists(it) THEN it ELSE f[SkipDeleted(it)]]
  <2>1. \A it \in MI : f[it] = IF it.parent = <<>> THEN [it EXCEPT !.cache = SkipCacheDeletes(it)]
                               ELSE IF Exists(it) THEN it ELSE f[SkipDeleted(it)]
    BY <1>4, <1>8, Zenon
  <2> QED
    BY <2>1, Zenon
<1>10. SkipUntilExistsOrInvalid =
         [it \in MI |-> IF it.parent = <<>> THEN [it EXCEPT !.cache = SkipCacheDeletes(it)]
                        ELSE IF Exists(it) THEN it ELSE SkipUntilExistsOrInvalid[SkipDeleted(it)]]
  BY <1>9, Zenon DEF SkipUntilExistsOrInvalid
<1>11. \A it \in MI : SkipUntilExistsOrInvalid[it] =
         IF it.parent = <<>> THEN [it EXCEPT !.cache = SkipCacheDeletes(it)]
         ELSE IF Exists(it) THEN it ELSE SkipUntilExistsOrInvalid[SkipDeleted(it)]
  BY <1>10, Zenon
<1>12. SkipUntilExistsOrInvalid \in [MI -> MI] /\ \A it \in MI : Size(SkipUntilExistsOrInvalid[it]) <= Size(it)
  <2> DEFINE Fine(it) == SkipUntilExistsOrInvalid[it] \in MI /\ Size(SkipUntilExistsOrInvalid[it]) <= Size(it)
             S == {n \in Nat : \A it \in MI : Size(it) = n => Fine(it)}
  <2>1. ASSUME NEW n \in Nat, \A m \in Nat : m < n => m \in S
        PROVE  n \in S
    <3> SUFFICES ASSUME NEW it \in MI, Size(it) = n PROVE Fine(it)
      BY Zenon
    <3>1. CASE it.parent = <<>>
      <4> DEFINE x == [it EXCEPT !.cache = SkipCacheDeletes(it)]
      <4>1. x \in MI /\ x.parent = it.parent /\ x.cache = SkipCacheDeletes(it)
        <5>1. SkipCacheDeletes(it) \in Seq(Pair)
          BY SkippedSize, Zenon
        <5> QED
          BY <5>1, Zenon DEF MergeIterator
      <4>2. Len(it.parent) <= Len(it.parent) /\ Len(SkipCacheDeletes(it)) <= Len(it.cache)
        <5>1. Len(it.parent) \in Nat
          BY IterFields, Zenon
        <5>2. Len(it.parent) <= Len(it.parent)
          BY <5>1
        <5> QED
          BY <5>2, SkippedSize, Zenon
      <4>3. Size(x) <= Size(it)
        <5> HIDE DEF x
        <5> QED
          BY <4>1, <4>2, Smaller, Zenon
      <4>4. SkipUntilExistsOrInvalid[it] = x
        BY <1>11, <3>1, Zenon
      <4> HIDE DEF x
      <4> QED
        BY <4>1, <4>3, <4>4, Zenon
    <3>2. CASE it.parent # <<>> /\ Exists(it)
      <4>1. SkipUntilExistsOrInvalid[it] = it
        BY <1>11, <3>2, Zenon
      <4>2. n <= n
        OBVIOUS
      <4> QED
        BY <4>1, <4>2, Zenon
    <3>3. CASE it.parent # <<>> /\ ~Exists(it)
      <4>1. SkipDeleted(it) \in MI /\ Size(SkipDeleted(it)) < n
        BY <3>3, DeletedSmaller, Zenon
      <4>2. PICK m \in Nat : m = Size(SkipDeleted(it))
        BY <4>1, Smaller, Zenon
      <4>3. SkipUntilExistsOrInvalid[SkipDeleted(it)] \in MI /\ Size(SkipUntilExistsOrInvalid[SkipDeleted(it)]) <= m
        BY <2>1, <4>1, <4>2, Zenon
      <4>4. SkipUntilExistsOrInvalid[it] = SkipUntilExistsOrInvalid[SkipDeleted(it)]
        BY <1>11, <3>3, Zenon
      <4>5. PICK k \in Nat : k = Size(SkipUntilExistsOrInvalid[it])
        BY <4>3, <4>4, Smaller, Zenon
      <4>6. k <= m /\ m < n
        BY <4>1, <4>2, <4>3, <4>4, <4>5, Zenon
      <4>7. k <= n
        BY <4>6
      <4> QED
        BY <4>3, <4>4, <4>5, <4>7, Zenon
    <3> HIDE DEF Fine
    <3> QED
      BY <3>1, <3>2, <3>3, Zenon
  <2>2. Nat \subseteq S
    <3> HIDE DEF S
    <3> QED
      BY <2>1, AllNaturals, Zenon
  <2>3. \A it \in MI : Fine(it)
    <3> HIDE DEF Fine
    <3> QED
      BY <1>1, <2>2, Smaller, Zenon
  <2> QED
    BY <1>10, <2>3, Zenon
<1> QED
  BY <1>11, <1>12, Zenon

------------------------------------------------------------------------------
(* Merge iterators: what is given *)

\* The pairs a merge iterator has to give, of the pairs P of its parent and C of
\* its cache: those of the parent that the cache does not hide, and those of the
\* cache that are not deletes.
Merged(P, C) == {p \in P : \A c \in C : c.key # p.key} \cup {c \in C : c.value # Nil}

Given(it) == Merged(Elements(it.parent), Elements(it.cache))

Good(it) ==
  it \in MergeIterator /\ InOrder(it.parent, it.ascending) /\ InOrder(it.cache, it.ascending)

\* A delete at the start of the cache waits for a key of the parent to pass.
Ready(it) ==
  /\ Good(it)
  /\ it.cache # <<>> /\ Head(it.cache).value = Nil =>
       it.parent # <<>> /\ Before(it.ascending, Head(it.parent).key, Head(it.cache).key)

\* Deletes of keys the parent does not have make no difference.
LEMMA MergedDrop ==
  ASSUME NEW P, NEW C, NEW X,
         \A x \in X : x.value = Nil /\ \A p \in P : x.key # p.key
  PROVE  Merged(P, X \cup C) = Merged(P, C)
BY Zenon DEF Merged

\* A pair of the parent whose key is not in the cache is given.
LEMMA MergedParent ==
  ASSUME NEW P, NEW C, NEW h, \A c \in C : c.key # h.key
  PROVE  Merged({h} \cup P, C) = {h} \cup Merged(P, C)
BY Zenon DEF Merged

\* A pair of the cache whose key is not in the parent is given.
LEMMA MergedCache ==
  ASSUME NEW P, NEW C, NEW d, d.value # Nil, \A p \in P : p.key # d.key
  PROVE  Merged(P, {d} \cup C) = {d} \cup Merged(P, C)
BY Zenon DEF Merged

\* The order of keys.
LEMMA BeforeFacts ==
  ASSUME NEW ascending \in BOOLEAN, NEW a \in Nat, NEW b \in Nat, NEW c \in Nat
  PROVE  /\ Before(ascending, a, b) => a # b
         /\ Before(ascending, a, b) /\ Before(ascending, b, c) => Before(ascending, a, c)
         /\ a # b => Before(ascending, a, b) \/ Before(ascending, b, a)
<1>1. CASE ascending = TRUE
  BY <1>1 DEF Before
<1>2. CASE ascending = FALSE
  BY <1>2 DEF Before
<1> QED
  BY <1>1, <1>2, Zenon

\* The order in which an iterator gives the keys is transitive.
LEMMA BeforeTransitive ==
  ASSUME NEW ascending \in BOOLEAN, NEW a \in Nat, NEW b \in Nat, NEW c \in Nat,
         Before(ascending, a, b), Before(ascending, b, c)
  PROVE  Before(ascending, a, c)
BY BeforeFacts, Zenon

\* The pairs of a sequence.
LEMMA ElementsPairs ==
  ASSUME NEW s \in Seq(Pair)
  PROVE  \A p \in Elements(s) : p \in Pair /\ p.key \in Nat
BY SeqKeys, Zenon DEF Elements

\* The pairs of a sequence without its first ones.
LEMMA WithoutFirst ==
  ASSUME NEW ascending \in BOOLEAN, NEW s \in Seq(Pair), InOrder(s, ascending), NEW j \in 0 .. Len(s),
         NEW t \in Seq(Pair), Len(t) = Len(s) - j, \A n \in 1 .. Len(t) : t[n] = s[n + j]
  PROVE  /\ InOrder(t, ascending)
         /\ Elements(s) = {s[n] : n \in 1 .. j} \cup Elements(t)
<1> Len(s) \in Nat /\ j \in Nat /\ j <= Len(s)
  OBVIOUS
<1>2. Len(t) = Len(s) - j /\ \A n \in 1 .. Len(t) : t[n] = s[n + j]
  BY Zenon
<1>3. InOrder(t, ascending)
  <2> SUFFICES ASSUME NEW m \in 1 .. Len(t), NEW n \in 1 .. Len(t), m < n
               PROVE  Before(ascending, t[m].key, t[n].key)
    BY Zenon DEF InOrder
  <2>1. m + j \in 1 .. Len(s) /\ n + j \in 1 .. Len(s) /\ m + j < n + j
    BY <1>2
  <2> QED
    BY <1>2, <2>1, Zenon DEF InOrder
<1>4. Elements(s) = {s[n] : n \in 1 .. j} \cup Elements(t)
  <2>1. ASSUME NEW n \in 1 .. Len(s), n > j
        PROVE  n - j \in 1 .. Len(t) /\ t[n - j] = s[n]
    <3>1. n - j \in 1 .. Len(t) /\ (n - j) + j = n
      BY <1>2, <2>1
    <3> QED
      BY <1>2, <3>1, Zenon
  <2>2. ASSUME NEW n \in 1 .. Len(t)
        PROVE  n + j \in 1 .. Len(s) /\ t[n] = s[n + j]
    BY <1>2
  <2>3. ASSUME NEW n \in 1 .. Len(s) PROVE s[n] \in {s[m] : m \in 1 .. j} \cup {t[m] : m \in 1 .. Len(t)}
    <3>1. n \in 1 .. j \/ n > j
      OBVIOUS
    <3> QED
      BY <2>1, <3>1, Zenon
  <2>4. \A n \in 1 .. j : n \in 1 .. Len(s)
    OBVIOUS
  <2>5. {s[m] : m \in 1 .. j} \subseteq {s[n] : n \in 1 .. Len(s)}
    BY <2>4, Zenon
  <2>6. {t[m] : m \in 1 .. Len(t)} \subseteq {s[n] : n \in 1 .. Len(s)}
    BY <2>2, Zenon
  <2>7. {s[n] : n \in 1 .. Len(s)} \subseteq {s[m] : m \in 1 .. j} \cup {t[m] : m \in 1 .. Len(t)}
    BY <2>3, Zenon
  <2> QED
    BY <2>5, <2>6, <2>7, Zenon DEF Elements
<1> QED
  BY <1>2, <1>3, <1>4, Zenon

\* The first pair of a sequence in order comes before the others.
LEMMA FirstAndRest ==
  ASSUME NEW ascending \in BOOLEAN, NEW s \in Seq(Pair), s # <<>>, InOrder(s, ascending)
  PROVE  /\ Tail(s) \in Seq(Pair) /\ InOrder(Tail(s), ascending)
         /\ Head(s) \in Elements(s) /\ Head(s).key \in Nat
         /\ Elements(s) = {Head(s)} \cup Elements(Tail(s))
         /\ \A p \in Elements(Tail(s)) : p.key \in Nat /\ Before(ascending, Head(s).key, p.key)
<1>1. /\ Len(s) \in Nat \ {0} /\ Head(s) = s[1] /\ Head(s) \in Pair
      /\ Tail(s) \in Seq(Pair) /\ Len(Tail(s)) = Len(s) - 1
      /\ \A n \in 1 .. Len(Tail(s)) : Tail(s)[n] = s[n + 1]
  BY HeadAndTail, Zenon
<1>2. PICK t \in Seq(Pair) : t = Tail(s)
  BY <1>1, Zenon
<1>3. Len(t) = Len(s) - 1 /\ \A n \in 1 .. Len(t) : t[n] = s[n + 1]
  BY <1>1, <1>2, Zenon
<1>4. InOrder(t, ascending)
  <2> SUFFICES ASSUME NEW m \in 1 .. Len(t), NEW n \in 1 .. Len(t), m < n
               PROVE  Before(ascending, t[m].key, t[n].key)
    BY Zenon DEF InOrder
  <2>1. m + 1 \in 1 .. Len(s) /\ n + 1 \in 1 .. Len(s) /\ m + 1 < n + 1
    BY <1>1, <1>3
  <2> QED
    BY <1>3, <2>1, Zenon DEF InOrder
<1>5. 1 \in 1 .. Len(s)
  BY <1>1
<1>6. \A n \in 1 .. Len(t) : n + 1 \in 1 .. Len(s) /\ 1 < n + 1
  BY <1>1, <1>3
<1>7. \A n \in 1 .. Len(s) : n = 1 \/ (n - 1 \in 1 .. Len(t) /\ t[n - 1] = s[n])
  BY <1>1, <1>3
<1>8. Elements(s) = {s[1]} \cup Elements(t)
  BY <1>3, <1>5, <1>6, <1>7 DEF Elements
<1>9. \A p \in Elements(t) : p.key \in Nat /\ Before(ascending, s[1].key, p.key)
  <2> SUFFICES ASSUME NEW n \in 1 .. Len(t) PROVE t[n].key \in Nat /\ Before(ascending, s[1].key, t[n].key)
    BY Zenon DEF Elements
  <2> QED
    BY <1>3, <1>5, <1>6, SeqKeys, Zenon DEF InOrder
<1>10. s[1].key \in Nat
  BY <1>5, SeqKeys, Zenon
<1> QED
  BY <1>1, <1>2, <1>4, <1>8, <1>9, <1>10, Zenon
\* A merge iterator without some deletes of the cache that the parent does not
\* have.
LEMMA GoodDrop ==
  ASSUME NEW it, Good(it), NEW j \in 0 .. Len(it.cache), \A n \in 1 .. j : Skipped(it, n),
         NEW x, x = [it EXCEPT !.cache = SubSeq(it.cache, j + 1, Len(it.cache))]
  PROVE  Good(x) /\ Given(x) = Given(it) /\ x.ascending = it.ascending
<1> DEFINE t == SubSeq(it.cache, j + 1, Len(it.cache))
           X == {it.cache[n] : n \in 1 .. j}
           P == Elements(it.parent)
<1>1. /\ it \in MergeIterator /\ InOrder(it.parent, it.ascending) /\ InOrder(it.cache, it.ascending)
      /\ it.parent \in Seq(Pair) /\ it.cache \in Seq(Pair) /\ it.ascending \in BOOLEAN
      /\ Len(it.cache) \in Nat
  BY IterFields, Zenon DEF Good
<1>2. t \in Seq(Pair) /\ InOrder(t, it.ascending) /\ Elements(it.cache) = X \cup Elements(t)
  <2>1. PICK s \in Seq(Pair) : s = it.cache
    BY <1>1, Zenon
  <2>2. j \in 0 .. Len(s) /\ Len(s) \in Nat
    BY <2>1
  <2>3. PICK u : u = SubSeq(s, j + 1, Len(s))
    BY Zenon
  <2>4. u \in Seq(Pair) /\ Len(u) = Len(s) - j /\ \A n \in 1 .. Len(u) : u[n] = s[n + j]
    BY <2>2, <2>3
  <2>5. t = u
    BY <2>1, <2>3, Zenon
  <2>6. PICK a \in BOOLEAN : a = it.ascending
    BY <1>1, Zenon
  <2>7. InOrder(s, a)
    BY <1>1, <2>1, <2>6, Zenon
  <2>8. InOrder(u, a) /\ Elements(s) = {s[n] : n \in 1 .. j} \cup Elements(u)
    BY <2>2, <2>4, <2>7, WithoutFirst
  <2> QED
    BY <2>1, <2>4, <2>5, <2>6, <2>8, Zenon
<1> HIDE DEF t
<1>3. /\ x \in MergeIterator /\ x.parent = it.parent /\ x.cache = t /\ x.ascending = it.ascending
  BY <1>1, <1>2, Zenon DEF MergeIterator, t
<1>4. ASSUME NEW n \in 1 .. j
      PROVE  it.cache[n].value = Nil /\ \A p \in P : it.cache[n].key # p.key
  <2>1. it.cache[n].value = Nil /\ (it.parent = <<>> \/ Comes(it, it.cache[n].key, it.parent[1].key))
    BY <1>4, Zenon DEF Skipped
  <2>2. CASE it.parent = <<>>
    <3>1. P = {}
      BY <2>2 DEF Elements
    <3> HIDE DEF P
    <3> QED
      BY <2>1, <3>1, Zenon
  <2>3. CASE it.parent # <<>>
    <3>1. /\ Head(it.parent).key \in Nat /\ P = {Head(it.parent)} \cup Elements(Tail(it.parent))
          /\ \A p \in Elements(Tail(it.parent)) : p.key \in Nat /\ Before(it.ascending, Head(it.parent).key, p.key)
      BY <1>1, <2>3, FirstAndRest, Zenon
    <3>2. Head(it.parent) = it.parent[1]
      BY <1>1, <2>3, HeadAndTail, Zenon
    <3>3. Before(it.ascending, it.cache[n].key, Head(it.parent).key)
      BY <2>1, <2>3, <3>2, Zenon DEF Comes, Before
    <3>4. it.cache[n].key \in Nat
      <4>1. n \in 1 .. Len(it.cache)
        BY <1>1
      <4> QED
        BY <1>1, <4>1, SeqKeys, Zenon
    <3> HIDE DEF P
    <3> QED
      BY <1>1, <2>1, <3>1, <3>3, <3>4, BeforeFacts, Zenon
  <2> QED
    BY <2>2, <2>3, Zenon
<1>5. Merged(P, X \cup Elements(t)) = Merged(P, Elements(t))
  <2>1. \A y \in X : y.value = Nil /\ \A p \in P : y.key # p.key
    BY <1>4, Zenon
  <2> HIDE DEF X, P
  <2> QED
    BY <2>1, MergedDrop, Zenon
<1>6. Given(x) = Given(it)
  BY <1>2, <1>3, <1>5, Zenon DEF Given
<1> QED
  BY <1>1, <1>2, <1>3, <1>6, Zenon DEF Good

\* A merge iterator without the pairs of a deleted key that both have.
LEMMA GoodBoth ==
  ASSUME NEW it, Good(it), it.parent # <<>>, it.cache # <<>>,
         Head(it.parent).key = Head(it.cache).key,
         NEW x, x = [it EXCEPT !.parent = Tail(it.parent), !.cache = Tail(it.cache)]
  PROVE  /\ Good(x) /\ x.ascending = it.ascending
         /\ Head(it.cache).value = Nil => Given(x) = Given(it)
         /\ Head(it.cache).value # Nil =>
              /\ Given(it) = {Head(it.cache)} \cup Given(x)
              /\ \A p \in Given(x) : Before(it.ascending, Head(it.cache).key, p.key)
<1>1. /\ it \in MergeIterator /\ InOrder(it.parent, it.ascending) /\ InOrder(it.cache, it.ascending)
      /\ it.parent \in Seq(Pair) /\ it.cache \in Seq(Pair) /\ it.ascending \in BOOLEAN
  BY IterFields, Zenon DEF Good
<1>2. /\ Tail(it.parent) \in Seq(Pair) /\ InOrder(Tail(it.parent), it.ascending)
      /\ Head(it.parent).key \in Nat /\ Elements(it.parent) = {Head(it.parent)} \cup Elements(Tail(it.parent))
      /\ \A p \in Elements(Tail(it.parent)) : p.key \in Nat /\ Before(it.ascending, Head(it.parent).key, p.key)
  BY <1>1, FirstAndRest, Zenon
<1>3. /\ Tail(it.cache) \in Seq(Pair) /\ InOrder(Tail(it.cache), it.ascending)
      /\ Head(it.cache).key \in Nat /\ Elements(it.cache) = {Head(it.cache)} \cup Elements(Tail(it.cache))
      /\ \A p \in Elements(Tail(it.cache)) : p.key \in Nat /\ Before(it.ascending, Head(it.cache).key, p.key)
  BY <1>1, FirstAndRest, Zenon
<1>4. /\ x \in MergeIterator /\ x.parent = Tail(it.parent) /\ x.cache = Tail(it.cache)
      /\ x.ascending = it.ascending
  BY <1>1, <1>2, <1>3, Zenon DEF MergeIterator
<1>5. \A p \in Elements(Tail(it.parent)) : p.key # Head(it.cache).key
  BY <1>1, <1>2, BeforeFacts, Zenon
<1>6. /\ Head(it.cache).value = Nil => Given(x) = Given(it)
      /\ Head(it.cache).value # Nil => Given(it) = {Head(it.cache)} \cup Given(x)
  <2> DEFINE P == Elements(Tail(it.parent))
             C == Elements(Tail(it.cache))
             h == Head(it.parent)
             d == Head(it.cache)
  <2>1. Given(it) = Merged({h} \cup P, {d} \cup C) /\ Given(x) = Merged(P, C)
    BY <1>2, <1>3, <1>4, Zenon DEF Given
  <2>2. h.key = d.key /\ \A p \in P : p.key # d.key
    BY <1>5, Zenon
  <2>3. /\ d.value = Nil => Given(x) = Given(it)
        /\ d.value # Nil => Given(it) = {d} \cup Given(x)
    <3> HIDE DEF P, C, h, d
    <3>1. /\ d.value = Nil => Merged({h} \cup P, {d} \cup C) = Merged(P, C)
          /\ d.value # Nil => Merged({h} \cup P, {d} \cup C) = {d} \cup Merged(P, C)
      BY <2>2, SMT DEF Merged
    <3> QED
      BY <2>1, <3>1, Zenon
  <2> QED
    BY <2>3, Zenon
<1>7. \A p \in Given(x) : p \in Elements(Tail(it.parent)) \/ p \in Elements(Tail(it.cache))
  BY <1>4, Zenon DEF Given, Merged
<1>8. \A p \in Given(x) : Before(it.ascending, Head(it.cache).key, p.key)
  BY <1>2, <1>3, <1>7, Zenon
<1> QED
  BY <1>1, <1>2, <1>3, <1>4, <1>6, <1>8, Zenon DEF Good
\* A merge iterator past a pair of its parent that comes first.
LEMMA GoodParent ==
  ASSUME NEW it, Good(it), FromParent(it),
         NEW x, x = [it EXCEPT !.parent = Tail(it.parent)]
  PROVE  /\ Good(x) /\ x.ascending = it.ascending /\ Head(it.parent) \in Pair
         /\ Given(it) = {Head(it.parent)} \cup Given(x)
         /\ \A p \in Given(x) : Before(it.ascending, Head(it.parent).key, p.key)
<1>1. /\ it \in MergeIterator /\ InOrder(it.parent, it.ascending) /\ InOrder(it.cache, it.ascending)
      /\ it.parent \in Seq(Pair) /\ it.cache \in Seq(Pair) /\ it.ascending \in BOOLEAN
  BY IterFields, Zenon DEF Good
<1>2. it.parent # <<>> /\ (it.cache = <<>> \/ Before(it.ascending, Head(it.parent).key, Head(it.cache).key))
  BY Zenon DEF FromParent, Comes, Before
<1>3. /\ Tail(it.parent) \in Seq(Pair) /\ InOrder(Tail(it.parent), it.ascending)
      /\ Head(it.parent).key \in Nat /\ Elements(it.parent) = {Head(it.parent)} \cup Elements(Tail(it.parent))
      /\ \A p \in Elements(Tail(it.parent)) : p.key \in Nat /\ Before(it.ascending, Head(it.parent).key, p.key)
  BY <1>1, <1>2, FirstAndRest, Zenon
<1>4. /\ x \in MergeIterator /\ x.parent = Tail(it.parent) /\ x.cache = it.cache
      /\ x.ascending = it.ascending
  BY <1>1, <1>3, Zenon DEF MergeIterator
<1>5. \A c \in Elements(it.cache) : c.key \in Nat /\ Before(it.ascending, Head(it.parent).key, c.key)
  <2>1. CASE it.cache = <<>>
    <3>1. Elements(it.cache) = {}
      BY <2>1 DEF Elements
    <3> QED
      BY <3>1, Zenon
  <2>2. CASE it.cache # <<>>
    <3>1. /\ Head(it.cache).key \in Nat /\ Elements(it.cache) = {Head(it.cache)} \cup Elements(Tail(it.cache))
          /\ \A p \in Elements(Tail(it.cache)) : p.key \in Nat /\ Before(it.ascending, Head(it.cache).key, p.key)
      BY <1>1, <2>2, FirstAndRest, Zenon
    <3>2. ASSUME NEW p \in Elements(Tail(it.cache))
          PROVE  p.key \in Nat /\ Before(it.ascending, Head(it.parent).key, p.key)
      <4>1. Before(it.ascending, Head(it.parent).key, Head(it.cache).key) /\ Before(it.ascending, Head(it.cache).key, p.key)
        BY <1>2, <2>2, <3>1, <3>2, Zenon
      <4> QED
        BY <1>1, <1>3, <3>1, <4>1, BeforeTransitive, Zenon
    <3> QED
      BY <1>2, <2>2, <3>1, <3>2, Zenon
  <2> QED
    BY <2>1, <2>2, Zenon
<1>6. \A c \in Elements(it.cache) : c.key # Head(it.parent).key
  BY <1>1, <1>3, <1>5, BeforeFacts, Zenon
<1>7. Given(it) = {Head(it.parent)} \cup Given(x)
  <2>1. Merged({Head(it.parent)} \cup Elements(Tail(it.parent)), Elements(it.cache))
          = {Head(it.parent)} \cup Merged(Elements(Tail(it.parent)), Elements(it.cache))
    BY <1>6, MergedParent, Zenon
  <2> QED
    BY <1>3, <1>4, <2>1, Zenon DEF Given
<1>8. \A p \in Given(x) : p \in Elements(Tail(it.parent)) \/ p \in Elements(it.cache)
  BY <1>4, Zenon DEF Given, Merged
<1>9. Head(it.parent) \in Pair
  BY <1>1, <1>2, HeadAndTail, Zenon
<1> QED
  BY <1>1, <1>3, <1>4, <1>5, <1>7, <1>8, <1>9, Zenon DEF Good

\* A merge iterator past a pair of its cache that comes first.
LEMMA GoodCache ==
  ASSUME NEW it, Good(it), it.cache # <<>>, Head(it.cache).value # Nil,
         it.parent = <<>> \/ Before(it.ascending, Head(it.cache).key, Head(it.parent).key),
         NEW x, x = [it EXCEPT !.cache = Tail(it.cache)]
  PROVE  /\ Good(x) /\ x.ascending = it.ascending
         /\ Given(it) = {Head(it.cache)} \cup Given(x)
         /\ \A p \in Given(x) : Before(it.ascending, Head(it.cache).key, p.key)
<1>1. /\ it \in MergeIterator /\ InOrder(it.parent, it.ascending) /\ InOrder(it.cache, it.ascending)
      /\ it.parent \in Seq(Pair) /\ it.cache \in Seq(Pair) /\ it.ascending \in BOOLEAN
  BY IterFields, Zenon DEF Good
<1>3. /\ Tail(it.cache) \in Seq(Pair) /\ InOrder(Tail(it.cache), it.ascending)
      /\ Head(it.cache).key \in Nat /\ Elements(it.cache) = {Head(it.cache)} \cup Elements(Tail(it.cache))
      /\ \A p \in Elements(Tail(it.cache)) : p.key \in Nat /\ Before(it.ascending, Head(it.cache).key, p.key)
  BY <1>1, FirstAndRest, Zenon
<1>4. /\ x \in MergeIterator /\ x.parent = it.parent /\ x.cache = Tail(it.cache)
      /\ x.ascending = it.ascending
  BY <1>1, <1>3, Zenon DEF MergeIterator
<1>5. \A c \in Elements(it.parent) : c.key \in Nat /\ Before(it.ascending, Head(it.cache).key, c.key)
  <2>1. CASE it.parent = <<>>
    <3>1. Elements(it.parent) = {}
      BY <2>1 DEF Elements
    <3> QED
      BY <3>1, Zenon
  <2>2. CASE it.parent # <<>>
    <3>1. /\ Head(it.parent).key \in Nat /\ Elements(it.parent) = {Head(it.parent)} \cup Elements(Tail(it.parent))
          /\ \A p \in Elements(Tail(it.parent)) : p.key \in Nat /\ Before(it.ascending, Head(it.parent).key, p.key)
      BY <1>1, <2>2, FirstAndRest, Zenon
    <3>2. ASSUME NEW p \in Elements(Tail(it.parent))
          PROVE  p.key \in Nat /\ Before(it.ascending, Head(it.cache).key, p.key)
      <4>1. Before(it.ascending, Head(it.cache).key, Head(it.parent).key) /\ Before(it.ascending, Head(it.parent).key, p.key)
        BY <2>2, <3>1, <3>2, Zenon
      <4> QED
        BY <1>1, <1>3, <3>1, <4>1, BeforeTransitive, Zenon
    <3> QED
      BY <2>2, <3>1, <3>2, Zenon
  <2> QED
    BY <2>1, <2>2, Zenon
<1>6. \A c \in Elements(it.parent) : c.key # Head(it.cache).key
  BY <1>1, <1>3, <1>5, BeforeFacts, Zenon
<1>7. Given(it) = {Head(it.cache)} \cup Given(x)
  <2>1. Merged(Elements(it.parent), {Head(it.cache)} \cup Elements(Tail(it.cache)))
          = {Head(it.cache)} \cup Merged(Elements(it.parent), Elements(Tail(it.cache)))
    BY <1>6, MergedCache, Zenon
  <2> QED
    BY <1>3, <1>4, <2>1, Zenon DEF Given
<1>8. \A p \in Given(x) : p \in Elements(it.parent) \/ p \in Elements(Tail(it.cache))
  BY <1>4, Zenon DEF Given, Merged
<1> QED
  BY <1>1, <1>3, <1>4, <1>5, <1>7, <1>8, Zenon DEF Good
\* skipUntilExistsOrInvalid leaves what there is to give, and no delete at the
\* start that could be given.
LEMMA SkipReady ==
  ASSUME NEW i, Good(i)
  PROVE  /\ Ready(SkipUntilExistsOrInvalid[i]) /\ Given(SkipUntilExistsOrInvalid[i]) = Given(i)
         /\ SkipUntilExistsOrInvalid[i].ascending = i.ascending
<1> DEFINE Fine(it) == /\ Ready(SkipUntilExistsOrInvalid[it])
                       /\ Given(SkipUntilExistsOrInvalid[it]) = Given(it)
                       /\ SkipUntilExistsOrInvalid[it].ascending = it.ascending
           S == {n \in Nat : \A it : Good(it) /\ Size(it) = n => Fine(it)}
<1>1. ASSUME NEW n \in Nat, \A m \in Nat : m < n => m \in S
      PROVE  n \in S
  <2> SUFFICES ASSUME NEW it, Good(it), Size(it) = n PROVE Fine(it)
    BY Zenon
  <2>1. /\ it \in MergeIterator /\ it.parent \in Seq(Pair) /\ it.cache \in Seq(Pair) /\ it.ascending \in BOOLEAN
        /\ Len(it.cache) \in Nat
    BY IterFields, Zenon DEF Good
  <2>2. SkipUntilExistsOrInvalid[it] =
          IF it.parent = <<>> THEN [it EXCEPT !.cache = SkipCacheDeletes(it)]
          ELSE IF Exists(it) THEN it
          ELSE SkipUntilExistsOrInvalid[SkipDeleted(it)]
    BY <2>1, SkipUnfold, Zenon
  <2>3. PICK j \in 0 .. Len(it.cache) :
           /\ SkipCacheDeletes(it) = SubSeq(it.cache, j + 1, Len(it.cache))
           /\ \A k \in 1 .. j : Skipped(it, k)
           /\ j < Len(it.cache) => ~Skipped(it, j + 1)
    BY <2>1, DeletesSkipped, Zenon
  <2>4. PICK x : x = [it EXCEPT !.cache = SkipCacheDeletes(it)]
    BY Zenon
  <2>5. Good(x) /\ Given(x) = Given(it) /\ x.ascending = it.ascending
    BY <2>3, <2>4, GoodDrop, Zenon
  <2>6. CASE it.parent = <<>>
    <3>1. PICK s : s = SubSeq(it.cache, j + 1, Len(it.cache))
      BY Zenon
    <3>2. x.cache = s
      BY <2>1, <2>3, <2>4, <3>1, Zenon DEF MergeIterator
    <3>3. ASSUME s # <<>> PROVE Head(s).value # Nil
      <4>1. Head(s) = it.cache[j + 1] /\ j < Len(it.cache)
        BY <2>1, <3>1, <3>3
      <4> QED
        BY <2>3, <2>6, <4>1, Zenon DEF Skipped
    <3>4. SkipUntilExistsOrInvalid[it] = x
      BY <2>2, <2>4, <2>6, Zenon
    <3> QED
      BY <2>5, <3>2, <3>3, <3>4, Zenon DEF Ready
  <2>7. CASE it.parent # <<>> /\ Exists(it)
    <3>1. SkipUntilExistsOrInvalid[it] = it
      BY <2>2, <2>7, Zenon
    <3>2. Ready(it)
      BY <2>7, Zenon DEF Ready, Exists, Comes, Before
    <3> QED
      BY <3>1, <3>2, Zenon
  <2>8. CASE it.parent # <<>> /\ ~Exists(it)
    <3>1. SkipUntilExistsOrInvalid[it] = SkipUntilExistsOrInvalid[SkipDeleted(it)]
      BY <2>2, <2>8, Zenon
    <3>2. it.cache # <<>> /\ Head(it.cache).value = Nil
      BY <2>8, Zenon DEF Exists
    <3>3. /\ Good(SkipDeleted(it)) /\ Given(SkipDeleted(it)) = Given(it)
          /\ SkipDeleted(it).ascending = it.ascending
      <4>1. CASE Head(it.parent).key = Head(it.cache).key
        <5>1. SkipDeleted(it) = [it EXCEPT !.parent = Tail(it.parent), !.cache = Tail(it.cache)]
          BY <2>1, <4>1, Zenon DEF SkipDeleted, MergeIterator
        <5>2. PICK y : y = [it EXCEPT !.parent = Tail(it.parent), !.cache = Tail(it.cache)]
          BY Zenon
        <5> QED
          BY <2>8, <3>2, <4>1, <5>1, <5>2, GoodBoth, Zenon
      <4>2. CASE Head(it.parent).key # Head(it.cache).key
        <5>1. SkipDeleted(it) = x
          BY <2>4, <4>2, Zenon DEF SkipDeleted
        <5> QED
          BY <2>5, <5>1, Zenon
      <4> QED
        BY <4>1, <4>2, Zenon
    <3>4. PICK m \in Nat : m = Size(SkipDeleted(it)) /\ m < n
      BY <2>1, <2>8, DeletedSmaller, Smaller, Zenon
    <3>5. Fine(SkipDeleted(it))
      <4> HIDE DEF Fine
      <4> QED
        BY <1>1, <3>3, <3>4, Zenon
    <3> QED
      BY <3>1, <3>3, <3>5, Zenon
  <2> HIDE DEF Fine
  <2> QED
    BY <2>6, <2>7, <2>8, Zenon
<1>2. Nat \subseteq S
  <2> HIDE DEF S
  <2> QED
    BY <1>1, AllNaturals, Zenon
<1>3. Size(i) \in Nat
  BY Smaller, Zenon DEF Good
<1>4. Fine(i)
  <2> HIDE DEF Fine
  <2> QED
    BY <1>2, <1>3, Zenon
<1> QED
  BY <1>4, Zenon
\* Next takes the pair that is given off what there is to give.
LEMMA PastGives ==
  ASSUME NEW it, Ready(it), IterValid(it)
  PROVE  /\ Good(PastCurrent(it)) /\ PastCurrent(it).ascending = it.ascending
         /\ Given(it) = {Current(it)} \cup Given(PastCurrent(it))
         /\ \A p \in Given(PastCurrent(it)) : Before(it.ascending, Current(it).key, p.key)
<1>1. Good(it) /\ it \in MergeIterator /\ it.parent \in Seq(Pair) /\ it.cache \in Seq(Pair) /\ it.ascending \in BOOLEAN
  BY IterFields, Zenon DEF Good, Ready
<1>2. CASE FromParent(it)
  <2>1. PICK x : x = [it EXCEPT !.parent = Tail(it.parent)]
    BY Zenon
  <2>2. PastCurrent(it) = x /\ Current(it) = Head(it.parent)
    BY <1>1, <1>2, <2>1, Zenon DEF PastCurrent, Current, MergeIterator
  <2>3. /\ Good(x) /\ x.ascending = it.ascending
        /\ Given(it) = {Head(it.parent)} \cup Given(x)
        /\ \A p \in Given(x) : Before(it.ascending, Head(it.parent).key, p.key)
    BY <1>1, <1>2, <2>1, GoodParent, Zenon
  <2> QED
    BY <2>2, <2>3, Zenon
<1>3. CASE ~FromParent(it)
  <2>1. it.cache # <<>> /\ Current(it) = Head(it.cache)
    BY <1>3, Zenon DEF IterValid, FromParent, Current
  <2>2. ~(it.parent # <<>> /\ Before(it.ascending, Head(it.parent).key, Head(it.cache).key))
    BY <1>3, Zenon DEF FromParent, Comes, Before
  <2>3. Head(it.cache).value # Nil
    BY <2>1, <2>2, Zenon DEF Ready
  <2>4. CASE FromBoth(it)
    <3>1. PICK x : x = [it EXCEPT !.parent = Tail(it.parent), !.cache = Tail(it.cache)]
      BY Zenon
    <3>2. PastCurrent(it) = x
      BY <1>1, <1>3, <2>4, <3>1, Zenon DEF PastCurrent, MergeIterator
    <3>3. it.parent # <<>> /\ Head(it.parent).key = Head(it.cache).key
      BY <2>4, Zenon DEF FromBoth
    <3>4. /\ Good(x) /\ x.ascending = it.ascending
          /\ Given(it) = {Head(it.cache)} \cup Given(x)
          /\ \A p \in Given(x) : Before(it.ascending, Head(it.cache).key, p.key)
      BY <1>1, <2>1, <2>3, <3>1, <3>3, GoodBoth, Zenon
    <3> QED
      BY <2>1, <3>2, <3>4, Zenon
  <2>5. CASE ~FromBoth(it)
    <3>1. PICK x : x = [it EXCEPT !.cache = Tail(it.cache)]
      BY Zenon
    <3>2. PastCurrent(it) = x
      BY <1>1, <1>3, <2>5, <3>1, Zenon DEF PastCurrent, MergeIterator
    <3>3. it.parent = <<>> \/ Before(it.ascending, Head(it.cache).key, Head(it.parent).key)
      <4> SUFFICES ASSUME it.parent # <<>> PROVE Before(it.ascending, Head(it.cache).key, Head(it.parent).key)
        BY Zenon
      <4>1. 1 \in 1 .. Len(it.parent) /\ 1 \in 1 .. Len(it.cache)
        BY <1>1, <2>1
      <4>2. Head(it.parent).key \in Nat /\ Head(it.cache).key \in Nat
        BY <1>1, <2>1, <4>1, HeadAndTail, SeqKeys, Zenon
      <4>3. Head(it.parent).key # Head(it.cache).key
        BY <2>1, <2>5, Zenon DEF FromBoth
      <4> QED
        BY <1>1, <2>2, <4>2, <4>3, BeforeFacts, Zenon
    <3>4. /\ Good(x) /\ x.ascending = it.ascending
          /\ Given(it) = {Head(it.cache)} \cup Given(x)
          /\ \A p \in Given(x) : Before(it.ascending, Head(it.cache).key, p.key)
      BY <1>1, <2>1, <2>3, <3>1, <3>3, GoodCache, Zenon
    <3> QED
      BY <2>1, <3>2, <3>4, Zenon
  <2> QED
    BY <2>4, <2>5, Zenon
<1> QED
  BY <1>2, <1>3, Zenon

\* Next leaves a smaller iterator.
LEMMA NextSmaller ==
  ASSUME NEW it \in MergeIterator, IterValid(it)
  PROVE  IterNext(it) \in MergeIterator /\ Size(IterNext(it)) < Size(it) /\ Current(it) \in Pair
<1>1. /\ it.parent \in Seq(Pair) /\ it.cache \in Seq(Pair) /\ it.ascending \in BOOLEAN
      /\ Len(it.parent) \in Nat /\ Len(it.cache) \in Nat
  BY IterFields, Zenon
<1>2. PICK p : p = Tail(it.parent)
  BY Zenon
<1>3. PICK c : c = Tail(it.cache)
  BY Zenon
<1>4. it.parent # <<>> => p \in Seq(Pair) /\ Len(p) = Len(it.parent) - 1 /\ Head(it.parent) \in Pair
  BY <1>1, <1>2, HeadAndTail, Zenon
<1>5. it.cache # <<>> => c \in Seq(Pair) /\ Len(c) = Len(it.cache) - 1 /\ Head(it.cache) \in Pair
  BY <1>1, <1>3, HeadAndTail, Zenon
<1>6. it.parent # <<>> => Len(p) <= Len(it.parent) /\ Len(p) < Len(it.parent)
  BY <1>1, <1>4
<1>7. it.cache # <<>> => Len(c) <= Len(it.cache) /\ Len(c) < Len(it.cache)
  BY <1>1, <1>5
<1>8. Len(it.parent) <= Len(it.parent) /\ Len(it.cache) <= Len(it.cache)
  BY <1>1
<1>9. /\ PastCurrent(it) \in MergeIterator
      /\ Len(PastCurrent(it).parent) <= Len(it.parent) /\ Len(PastCurrent(it).cache) <= Len(it.cache)
      /\ Len(PastCurrent(it).parent) < Len(it.parent) \/ Len(PastCurrent(it).cache) < Len(it.cache)
      /\ Current(it) \in Pair
  <2>1. CASE FromParent(it)
    <3>1. it.parent # <<>>
      BY <2>1, Zenon DEF FromParent
    <3>2. PastCurrent(it) = [it EXCEPT !.parent = p] /\ Current(it) = Head(it.parent)
      BY <1>2, <2>1, Zenon DEF PastCurrent, Current, MergeIterator
    <3>3. PastCurrent(it) \in MergeIterator /\ PastCurrent(it).parent = p /\ PastCurrent(it).cache = it.cache
      BY <1>1, <1>4, <3>1, <3>2, Zenon DEF MergeIterator
    <3> QED
      BY <1>4, <1>6, <1>8, <3>1, <3>2, <3>3, Zenon
  <2>2. CASE ~FromParent(it)
    <3>1. it.cache # <<>> /\ Current(it) = Head(it.cache)
      BY <2>2, Zenon DEF IterValid, FromParent, Current
    <3>2. CASE FromBoth(it)
      <4>1. it.parent # <<>>
        BY <3>2, Zenon DEF FromBoth
      <4>2. PastCurrent(it) = [it EXCEPT !.parent = p, !.cache = c]
        BY <1>2, <1>3, <2>2, <3>2, Zenon DEF PastCurrent, MergeIterator
      <4>3. PastCurrent(it) \in MergeIterator /\ PastCurrent(it).parent = p /\ PastCurrent(it).cache = c
        BY <1>1, <1>4, <1>5, <3>1, <4>1, <4>2, Zenon DEF MergeIterator
      <4> QED
        BY <1>5, <1>6, <1>7, <3>1, <4>1, <4>3, Zenon
    <3>3. CASE ~FromBoth(it)
      <4>2. PastCurrent(it) = [it EXCEPT !.cache = c]
        BY <1>3, <2>2, <3>3, Zenon DEF PastCurrent, MergeIterator
      <4>3. PastCurrent(it) \in MergeIterator /\ PastCurrent(it).parent = it.parent /\ PastCurrent(it).cache = c
        BY <1>1, <1>5, <3>1, <4>2, Zenon DEF MergeIterator
      <4> QED
        BY <1>5, <1>7, <1>8, <3>1, <4>3, Zenon
    <3> QED
      BY <3>2, <3>3, Zenon
  <2> QED
    BY <2>1, <2>2, Zenon
<1>10. Size(PastCurrent(it)) < Size(it)
  BY <1>9, Smaller, Zenon
<1>11. IterNext(it) \in MergeIterator /\ Size(IterNext(it)) <= Size(PastCurrent(it))
  BY <1>9, SkipUnfold, Zenon DEF IterNext
<1>12. PICK k \in Nat, l \in Nat, m \in Nat : k = Size(it) /\ l = Size(PastCurrent(it)) /\ m = Size(IterNext(it))
  BY <1>9, <1>11, Smaller, Zenon
<1>13. l < k /\ m <= l
  BY <1>10, <1>11, <1>12, Zenon
<1>14. m < k
  BY <1>13
<1> QED
  BY <1>9, <1>11, <1>12, <1>14, Zenon
\* The equation of Drained has a solution.
LEMMA DrainedUnfold ==
  /\ Drained \in [MergeIterator -> Seq(Pair)]
  /\ \A it \in MergeIterator :
       Drained[it] = IF IterValid(it) THEN <<Current(it)>> \o Drained[IterNext(it)] ELSE <<>>
<1> DEFINE MI == MergeIterator
           V == Seq(Pair)
           size == [it \in MI |-> Size(it)]
           B == [it \in MI |-> [f \in [MI -> V] |->
                  IF IterValid(it) THEN <<Current(it)>> \o f[IterNext(it)] ELSE <<>>]]
<1>1. size \in [MI -> Nat]
  <2>1. \A it \in MI : Size(it) \in Nat
    BY Smaller, Zenon
  <2> QED
    BY <2>1, Zenon
<1>2. <<>> \in V /\ \A p \in Pair, s \in V : <<p>> \o s \in V
  OBVIOUS
<1> HIDE DEF V
<1>3. ASSUME NEW it \in MI, NEW f \in [MI -> V]
      PROVE  B[it][f] = IF IterValid(it) THEN <<Current(it)>> \o f[IterNext(it)] ELSE <<>>
  BY Zenon
<1>4. ASSUME NEW it \in MI, NEW f \in [MI -> V]
      PROVE  B[it][f] \in V
  <2>1. CASE IterValid(it)
    <3>1. IterNext(it) \in MI /\ Current(it) \in Pair
      BY <2>1, NextSmaller, Zenon
    <3>2. f[IterNext(it)] \in V
      BY <3>1, Zenon
    <3> HIDE DEF B
    <3> QED
      BY <1>2, <1>3, <2>1, <3>1, <3>2, Zenon
  <2>2. CASE ~IterValid(it)
    <3> HIDE DEF B
    <3> QED
      BY <1>2, <1>3, <2>2, Zenon
  <2> QED
    BY <2>1, <2>2, Zenon
<1>5. ASSUME NEW it \in MI, NEW f \in [MI -> V], NEW g \in [MI -> V],
             \A y \in MI : size[y] < size[it] => f[y] = g[y]
      PROVE  B[it][f] = B[it][g]
  <2>1. IterValid(it) => f[IterNext(it)] = g[IterNext(it)]
    <3> SUFFICES ASSUME IterValid(it) PROVE f[IterNext(it)] = g[IterNext(it)]
      BY Zenon
    <3>1. IterNext(it) \in MI /\ Size(IterNext(it)) < Size(it)
      BY NextSmaller, Zenon
    <3>2. size[IterNext(it)] < size[it]
      BY <3>1, Zenon
    <3> QED
      BY <1>5, <3>1, <3>2, Zenon
  <2> HIDE DEF B
  <2> QED
    BY <1>3, <2>1, Zenon
<1>6. \E f \in [MI -> V] : \A it \in MI : f[it] = B[it][f]
  <2>1. \A it \in MI, f \in [MI -> V] : B[it][f] \in V
    BY <1>4, Zenon
  <2>2. \A it \in MI, f, g \in [MI -> V] :
          (\A y \in MI : size[y] < size[it] => f[y] = g[y]) => B[it][f] = B[it][g]
    BY <1>5, Zenon
  <2>3. UsesSmaller(MI, V, size, B)
    BY <2>1, <2>2, Zenon DEF UsesSmaller
  <2>4. HasSolution(MI, V, B)
    <3>1. PICK v \in V : TRUE
      BY <1>2, Zenon
    <3> HIDE DEF MI, size, B
    <3> QED
      BY <1>1, <2>3, <3>1, Recursion, Zenon
  <2> QED
    BY <2>4, Zenon DEF HasSolution
<1>7. PICK f \in [MI -> V] : \A it \in MI : f[it] = B[it][f]
  BY <1>6, Zenon
<1>8. f = [it \in MI |-> IF IterValid(it) THEN <<Current(it)>> \o f[IterNext(it)] ELSE <<>>]
  <2>1. \A it \in MI : f[it] = IF IterValid(it) THEN <<Current(it)>> \o f[IterNext(it)] ELSE <<>>
    BY <1>3, <1>7, Zenon
  <2> QED
    BY <2>1, Zenon
<1>9. Drained = [it \in MI |-> IF IterValid(it) THEN <<Current(it)>> \o Drained[IterNext(it)] ELSE <<>>]
  BY <1>8, Zenon DEF Drained
<1>10. \A it \in MI : Drained[it] = IF IterValid(it) THEN <<Current(it)>> \o Drained[IterNext(it)] ELSE <<>>
  BY <1>9, Zenon
<1>11. Drained \in [MI -> V]
  <2> DEFINE S == {n \in Nat : \A it \in MI : Size(it) = n => Drained[it] \in V}
  <2>1. ASSUME NEW n \in Nat, \A m \in Nat : m < n => m \in S
        PROVE  n \in S
    <3> SUFFICES ASSUME NEW it \in MI, Size(it) = n PROVE Drained[it] \in V
      BY Zenon
    <3>1. CASE IterValid(it)
      <4>1. IterNext(it) \in MI /\ Size(IterNext(it)) < n /\ Current(it) \in Pair
        BY <3>1, NextSmaller, Zenon
      <4>2. PICK m \in Nat : m = Size(IterNext(it)) /\ m < n
        BY <4>1, Smaller, Zenon
      <4>3. Drained[IterNext(it)] \in V
        BY <2>1, <4>1, <4>2, Zenon
      <4> QED
        BY <1>2, <1>10, <3>1, <4>1, <4>3, Zenon
    <3>2. CASE ~IterValid(it)
      BY <1>2, <1>10, <3>2, Zenon
    <3> QED
      BY <3>1, <3>2, Zenon
  <2>2. Nat \subseteq S
    <3> HIDE DEF S
    <3> QED
      BY <2>1, AllNaturals, Zenon
  <2>3. \A it \in MI : Drained[it] \in V
    BY <2>2, Smaller, Zenon
  <2> QED
    BY <1>9, <2>3, Zenon
<1> QED
  BY <1>10, <1>11, Zenon DEF V

\* A pair put before others that come after it.
LEMMA PutFirst ==
  ASSUME NEW ascending \in BOOLEAN, NEW c \in Pair, NEW d \in Seq(Pair), InOrder(d, ascending),
         \A p \in Elements(d) : Before(ascending, c.key, p.key)
  PROVE  /\ <<c>> \o d \in Seq(Pair) /\ InOrder(<<c>> \o d, ascending)
         /\ Elements(<<c>> \o d) = {c} \cup Elements(d)
<1>1. PICK s : s = <<c>> \o d
  BY Zenon
<1> Len(d) \in Nat
  OBVIOUS
<1>2. s \in Seq(Pair) /\ Len(s) = Len(d) + 1 /\ s[1] = c /\ \A n \in 1 .. Len(d) : s[n + 1] = d[n]
  BY <1>1
<1>3. \A n \in 1 .. Len(s) : n = 1 \/ (n - 1 \in 1 .. Len(d) /\ s[n] = d[n - 1])
  <2> SUFFICES ASSUME NEW n \in 1 .. Len(s), n # 1 PROVE n - 1 \in 1 .. Len(d) /\ s[n] = d[n - 1]
    BY Zenon
  <2>1. n - 1 \in 1 .. Len(d) /\ (n - 1) + 1 = n
    BY <1>2
  <2> QED
    BY <1>2, <2>1, Zenon
<1>4. 1 \in 1 .. Len(s) /\ \A n \in 1 .. Len(d) : n + 1 \in 1 .. Len(s)
  BY <1>2
<1>5. InOrder(s, ascending)
  <2> SUFFICES ASSUME NEW m \in 1 .. Len(s), NEW n \in 1 .. Len(s), m < n
               PROVE  Before(ascending, s[m].key, s[n].key)
    BY Zenon DEF InOrder
  <2>1. n # 1
    BY <1>2
  <2>2. n - 1 \in 1 .. Len(d) /\ s[n] = d[n - 1]
    BY <1>3, <2>1, Zenon
  <2>3. CASE m = 1
    BY <1>2, <2>2, <2>3, Zenon DEF Elements
  <2>4. CASE m # 1
    <3>1. m - 1 \in 1 .. Len(d) /\ s[m] = d[m - 1]
      BY <1>3, <2>4, Zenon
    <3>2. m - 1 < n - 1
      BY <1>2
    <3> QED
      BY <2>2, <3>1, <3>2, Zenon DEF InOrder
  <2> QED
    BY <2>3, <2>4, Zenon
<1>6. Elements(s) = {c} \cup Elements(d)
  <2>1. ASSUME NEW n \in 1 .. Len(s) PROVE s[n] \in {c} \cup Elements(d)
    BY <1>2, <1>3, Zenon DEF Elements
  <2>2. c \in Elements(s)
    BY <1>2, <1>4, Zenon DEF Elements
  <2>3. ASSUME NEW n \in 1 .. Len(d) PROVE d[n] \in Elements(s)
    BY <1>2, <1>4, Zenon DEF Elements
  <2>4. Elements(s) \subseteq {c} \cup Elements(d)
    BY <2>1, Zenon DEF Elements
  <2>5. Elements(d) \subseteq Elements(s)
    BY <2>3, Zenon DEF Elements
  <2> QED
    BY <2>2, <2>4, <2>5, Zenon
<1> QED
  BY <1>1, <1>2, <1>5, <1>6, Zenon

\* An iterator that is ready gives what it has to give, in order.
LEMMA DrainedGives ==
  ASSUME NEW i, Ready(i)
  PROVE  Drained[i] \in Seq(Pair) /\ InOrder(Drained[i], i.ascending) /\ Elements(Drained[i]) = Given(i)
<1> DEFINE Fine(it) == /\ Drained[it] \in Seq(Pair) /\ InOrder(Drained[it], it.ascending)
                       /\ Elements(Drained[it]) = Given(it)
           S == {n \in Nat : \A it : Ready(it) /\ Size(it) = n => Fine(it)}
<1>1. ASSUME NEW n \in Nat, \A m \in Nat : m < n => m \in S
      PROVE  n \in S
  <2> SUFFICES ASSUME NEW it, Ready(it), Size(it) = n PROVE Fine(it)
    BY Zenon
  <2>1. it \in MergeIterator /\ it.ascending \in BOOLEAN
    BY IterFields, Zenon DEF Good, Ready
  <2>2. Drained[it] = IF IterValid(it) THEN <<Current(it)>> \o Drained[IterNext(it)] ELSE <<>>
    BY <2>1, DrainedUnfold, Zenon
  <2>3. CASE ~IterValid(it)
    <3>1. it.parent = <<>> /\ it.cache = <<>>
      BY <2>3, Zenon DEF IterValid
    <3>2. Elements(<<>>) = {} /\ <<>> \in Seq(Pair) /\ InOrder(<<>>, it.ascending)
      BY DEF Elements, InOrder
    <3>3. Given(it) = {}
      BY <3>1, <3>2, Zenon DEF Given, Merged
    <3> QED
      BY <2>2, <2>3, <3>2, <3>3, Zenon
  <2>4. CASE IterValid(it)
    <3>1. /\ Good(PastCurrent(it)) /\ PastCurrent(it).ascending = it.ascending
          /\ Given(it) = {Current(it)} \cup Given(PastCurrent(it))
          /\ \A p \in Given(PastCurrent(it)) : Before(it.ascending, Current(it).key, p.key)
      BY <2>4, PastGives, Zenon
    <3>2. /\ Ready(IterNext(it)) /\ Given(IterNext(it)) = Given(PastCurrent(it))
          /\ IterNext(it).ascending = it.ascending
      BY <3>1, SkipReady, Zenon DEF IterNext
    <3>3. PICK m \in Nat : m = Size(IterNext(it)) /\ m < n
      BY <2>1, <2>4, NextSmaller, Smaller, Zenon
    <3>4. Fine(IterNext(it))
      <4> HIDE DEF Fine
      <4> QED
        BY <1>1, <3>2, <3>3, Zenon
    <3>5. PICK d \in Seq(Pair) : d = Drained[IterNext(it)]
      BY <3>4, Zenon
    <3>6. PICK c \in Pair : c = Current(it)
      BY <2>1, <2>4, NextSmaller, Zenon
    <3>7. InOrder(d, it.ascending) /\ Elements(d) = Given(PastCurrent(it))
      BY <3>2, <3>4, <3>5, Zenon
    <3>8. \A p \in Elements(d) : Before(it.ascending, c.key, p.key)
      BY <3>1, <3>6, <3>7, Zenon
    <3>9. /\ <<c>> \o d \in Seq(Pair) /\ InOrder(<<c>> \o d, it.ascending)
          /\ Elements(<<c>> \o d) = {c} \cup Elements(d)
      <4>1. PICK a \in BOOLEAN : a = it.ascending
        BY <2>1, Zenon
      <4>2. InOrder(d, a) /\ \A p \in Elements(d) : Before(a, c.key, p.key)
        BY <3>7, <3>8, <4>1, Zenon
      <4>3. /\ <<c>> \o d \in Seq(Pair) /\ InOrder(<<c>> \o d, a)
            /\ Elements(<<c>> \o d) = {c} \cup Elements(d)
        BY <4>2, PutFirst
      <4> QED
        BY <4>1, <4>3, Zenon
    <3>10. Drained[it] = <<c>> \o d
      BY <2>2, <2>4, <3>5, <3>6, Zenon
    <3> QED
      BY <3>1, <3>6, <3>7, <3>9, <3>10, Zenon
  <2> HIDE DEF Fine
  <2> QED
    BY <2>3, <2>4, Zenon
<1>2. Nat \subseteq S
  <2> HIDE DEF S
  <2> QED
    BY <1>1, AllNaturals, Zenon
<1>3. Size(i) \in Nat
  BY Smaller, Zenon DEF Good, Ready
<1>4. Fine(i)
  <2> HIDE DEF Fine
  <2> QED
    BY <1>2, <1>3, Zenon
<1> QED
  BY <1>4, Zenon
------------------------------------------------------------------------------
(* What an iterator over a branch gives *)

\* A key of a range.
LEMMA RangeFacts ==
  ASSUME NEW r \in Ranges
  PROVE  /\ r.start = None \/ r.start \in Nat
         /\ r.end = None \/ r.end \in Nat
<1>1. Ranges \subseteq [start : Nat \cup {None}, end : Nat \cup {None}]
  BY CacheAssumption, Zenon
<1> QED
  BY <1>1, Zenon

\* Keys have values, None marks a key that has none in a cache, and Nil one that
\* was deleted.
LEMMA ValueFacts == Nil \notin Values /\ None \notin Values /\ None # Nil
BY CacheAssumption, Zenon

\* A memIterator walks the keys of its range, in both directions.
LEMMA MemKeysInDomain ==
  ASSUME NEW T, T \subseteq Keys, NEW r \in Ranges, NEW ascending \in BOOLEAN
  PROVE  MemKeys(T, r, ascending) = {k \in T : IsKeyInDomain(k, r)}
<1> T \subseteq Nat
  BY KeyFacts, Zenon
<1> /\ r.start = None \/ r.start \in Nat
    /\ r.end = None \/ r.end \in Nat
  BY RangeFacts, Zenon
<1> DEFINE A == {k \in T : r.end # None /\ k >= r.end}
<1>1. CASE ascending = TRUE
  <2>1. MemKeys(T, r, TRUE) = {k \in T : (r.start # None => k >= r.start) /\ k \notin A}
    BY Zenon DEF MemKeys
  <2>2. \A k \in T : k \notin A <=> (r.end # None => k < r.end)
    OBVIOUS
  <2> HIDE DEF A
  <2> QED
    BY <1>1, <2>1, <2>2, Zenon DEF IsKeyInDomain
<1>2. CASE ascending = FALSE
  <2>1. MemKeys(T, r, FALSE) = {k \in T : (A # {} => k < Min(A)) /\ (r.start # None => k >= r.start)}
    BY Zenon DEF MemKeys
  <2>2. ASSUME NEW k \in T PROVE (A # {} => k < Min(A)) <=> (r.end # None => k < r.end)
    <3>1. CASE A = {}
      <4>1. k \notin A
        BY <3>1, Zenon
      <4>2. r.end # None => k < r.end
        BY <4>1
      <4> QED
        BY <3>1, <4>2, Zenon
    <3>2. CASE A # {}
      <4>1. Min(A) \in A /\ \A n \in A : Min(A) <= n
        <5>1. A \subseteq Nat
          BY Zenon
        <5>2. \E x \in A : \A y \in A : x <= y
          <6> HIDE DEF A
          <6> QED
            BY <3>2, <5>1, LeastNatural, Zenon
        <5> HIDE DEF A
        <5> QED
          BY <5>2, Zenon DEF Min
      <4>2. PICK m : m = Min(A)
        BY Zenon
      <4>3. m \in Nat /\ r.end # None /\ m >= r.end /\ \A n \in A : m <= n
        BY <4>1, <4>2, Zenon
      <4>4. k < m <=> k < r.end
        BY <4>3
      <4> QED
        BY <3>2, <4>2, <4>3, <4>4, Zenon
    <3> QED
      BY <3>1, <3>2, Zenon
  <2> HIDE DEF A
  <2> QED
    BY <1>2, <2>1, <2>2, Zenon DEF IsKeyInDomain
<1> QED
  BY <1>1, <1>2, Zenon

Maps == [Keys -> Values \cup {Nil}]
Caches == [Keys -> Values \cup {Nil, None}]

\* What a branch reads, in a range, that has t set over what m is below it.
Overlaid(whole, m, t, r) ==
  \A k \in Keys : IsKeyInDomain(k, r) => whole[k] = IF t[k] # None THEN t[k] ELSE m[k]

\* An iterator gives what a store holds in a range.
Iterates(it, whole, r, ascending) == it \in MergeIterator /\ Drained[it] = Contents(whole, r, ascending)

\* The iterator of a branch over what the one below gives: m is what the branch
\* below reads, t the tree, and whole what the branch reads, in the range.
LEMMA OpenGives ==
  ASSUME NEW m \in Maps, NEW t \in Caches, NEW whole \in Maps, NEW r \in Ranges, NEW ascending \in BOOLEAN,
         Overlaid(whole, m, t, r)
  PROVE  Iterates(NewCacheMergeIterator(Contents(m, r, ascending), MemIterator(t, r, ascending), ascending),
                  whole, r, ascending)
<1> \A k \in Keys : IsKeyInDomain(k, r) => whole[k] = IF t[k] # None THEN t[k] ELSE m[k]
  BY Zenon DEF Overlaid
<1> /\ m \in [Keys -> Values \cup {Nil}] /\ whole \in [Keys -> Values \cup {Nil}]
    /\ t \in [Keys -> Values \cup {Nil, None}]
  BY Zenon DEF Maps, Caches
<1> DEFINE KP == {k \in Keys : IsKeyInDomain(k, r) /\ m[k] # Nil}
           KC == {k \in {j \in Keys : t[j] # None} : IsKeyInDomain(k, r)}
           KW == {k \in Keys : IsKeyInDomain(k, r) /\ whole[k] # Nil}
           P == {[key |-> k, value |-> m[k]] : k \in KP}
           C == {[key |-> k, value |-> t[k]] : k \in KC}
           W == {[key |-> k, value |-> whole[k]] : k \in KW}
<1>1. PICK p : p = Contents(m, r, ascending)
  BY Zenon
<1>2. p \in Seq(Pair) /\ InOrder(p, ascending) /\ Elements(p) = P
  <2>1. KP \subseteq Keys /\ \A k \in KP : m[k] \in Values \cup {Nil}
    BY Zenon
  <2>2. p = Pairs(m, KP, ascending)
    BY <1>1, Zenon DEF Contents
  <2> HIDE DEF KP
  <2>3. ListsPairs(p, m, KP, ascending)
    BY <2>1, <2>2, PairsInOrder, Zenon
  <2> QED
    BY <2>3, Zenon DEF ListsPairs
<1>3. PICK c : c = MemIterator(t, r, ascending)
  BY Zenon
<1>4. c \in Seq(Pair) /\ InOrder(c, ascending) /\ Elements(c) = C
  <2>1. KC \subseteq Keys /\ \A k \in KC : t[k] \in Values \cup {Nil}
    BY Zenon
  <2>2. {j \in Keys : t[j] # None} \subseteq Keys
    BY Zenon
  <2>3. c = Pairs(t, KC, ascending)
    BY <1>3, <2>2, MemKeysInDomain, Zenon DEF MemIterator
  <2> HIDE DEF KC
  <2>4. ListsPairs(c, t, KC, ascending)
    BY <2>1, <2>3, PairsInOrder, Zenon
  <2> QED
    BY <2>4, Zenon DEF ListsPairs
<1>5. PICK w : w = Contents(whole, r, ascending)
  BY Zenon
<1>6. w \in Seq(Pair) /\ InOrder(w, ascending) /\ Elements(w) = W
  <2>1. KW \subseteq Keys /\ \A k \in KW : whole[k] \in Values \cup {Nil}
    BY Zenon
  <2>2. w = Pairs(whole, KW, ascending)
    BY <1>5, Zenon DEF Contents
  <2> HIDE DEF KW
  <2>3. ListsPairs(w, whole, KW, ascending)
    BY <2>1, <2>2, PairsInOrder, Zenon
  <2> QED
    BY <2>3, Zenon DEF ListsPairs
<1>7. PICK it : it = [parent |-> p, cache |-> c, ascending |-> ascending]
  BY Zenon
<1>8. it \in MergeIterator /\ it.parent = p /\ it.cache = c /\ it.ascending = ascending
  BY <1>2, <1>4, <1>7, Zenon DEF MergeIterator
<1>9. Good(it)
  BY <1>2, <1>4, <1>8, Zenon DEF Good
<1>0. PICK x : x = SkipUntilExistsOrInvalid[it]
  BY Zenon
<1>10. x = NewCacheMergeIterator(Contents(m, r, ascending), MemIterator(t, r, ascending), ascending)
  BY <1>0, <1>1, <1>3, <1>7, Zenon DEF NewCacheMergeIterator
<1>11. Ready(x) /\ Given(x) = Given(it) /\ x.ascending = ascending
  BY <1>0, <1>8, <1>9, SkipReady, Zenon
<1>12. Drained[x] \in Seq(Pair) /\ InOrder(Drained[x], ascending) /\ Elements(Drained[x]) = Given(it)
  BY <1>11, DrainedGives, Zenon
<1>13. Given(it) = Merged(P, C)
  BY <1>2, <1>4, <1>8, Zenon DEF Given
<1>14. Merged(P, C) = W
  <2>1. ASSUME NEW k \in KP, \A q \in C : q.key # k
        PROVE  k \in KW /\ whole[k] = m[k]
    <3>1. k \notin KC
      <4> SUFFICES ASSUME k \in KC PROVE FALSE
        BY Zenon
      <4>1. [key |-> k, value |-> t[k]] \in C
        BY Zenon
      <4>2. [key |-> k, value |-> t[k]].key = k
        BY Zenon
      <4> HIDE DEF C
      <4> QED
        BY <2>1, <4>1, <4>2, Zenon
    <3> QED
      BY <3>1, Zenon
  <2>2. ASSUME NEW k \in KC, t[k] # Nil
        PROVE  k \in KW /\ whole[k] = t[k]
    BY <2>2, Zenon
  <2>3. ASSUME NEW k \in KW
        PROVE  \/ k \in KC /\ whole[k] = t[k] /\ t[k] # Nil
               \/ k \in KP /\ k \notin KC /\ whole[k] = m[k]
    BY Zenon
  <2>4. \A k \in KC : [key |-> k, value |-> t[k]].key = k /\ [key |-> k, value |-> t[k]].value = t[k]
    BY Zenon
  <2>5. \A k \in KP : [key |-> k, value |-> m[k]].key = k
    BY Zenon
  <2> HIDE DEF KP, KC, KW
  <2>6. \A q \in C : q.key \in KC
    BY <2>4, Zenon
  <2>7. ASSUME NEW k \in KW PROVE [key |-> k, value |-> whole[k]] \in Merged(P, C)
    <3>1. CASE k \in KC /\ whole[k] = t[k] /\ t[k] # Nil
      <4>1. [key |-> k, value |-> t[k]] \in C
        BY <3>1, Zenon
      <4> HIDE DEF C
      <4> QED
        BY <2>4, <3>1, <4>1, Zenon DEF Merged
    <3>2. CASE k \in KP /\ k \notin KC /\ whole[k] = m[k]
      <4>1. [key |-> k, value |-> m[k]] \in P
        BY <3>2, Zenon
      <4> HIDE DEF C, P
      <4> QED
        BY <2>5, <2>6, <3>2, <4>1, Zenon DEF Merged
    <3> QED
      BY <2>3, <3>1, <3>2, Zenon
  <2>8. ASSUME NEW q \in Merged(P, C) PROVE q \in W
    <3>1. CASE q \in P /\ \A d \in C : d.key # q.key
      <4>1. PICK k \in KP : q = [key |-> k, value |-> m[k]]
        BY <3>1, Zenon
      <4>2. \A d \in C : d.key # k
        BY <2>5, <3>1, <4>1, Zenon
      <4>3. k \in KW /\ whole[k] = m[k]
        BY <2>1, <4>2, Zenon
      <4> QED
        BY <4>1, <4>3, Zenon
    <3>2. CASE q \in C /\ q.value # Nil
      <4>1. PICK k \in KC : q = [key |-> k, value |-> t[k]]
        BY <3>2, Zenon
      <4>2. t[k] # Nil
        BY <2>4, <3>2, <4>1, Zenon
      <4>3. k \in KW /\ whole[k] = t[k]
        BY <2>2, <4>2, Zenon
      <4> QED
        BY <4>1, <4>3, Zenon
    <3>3. (q \in P /\ \A d \in C : d.key # q.key) \/ (q \in C /\ q.value # Nil)
      BY Zenon DEF Merged
    <3> QED
      BY <3>1, <3>2, <3>3, Zenon
  <2>9. W \subseteq Merged(P, C)
    BY <2>7, Zenon
  <2> HIDE DEF P, C, W
  <2> QED
    BY <2>8, <2>9, Zenon
<1>15. Drained[x] = w
  BY <1>6, <1>12, <1>13, <1>14, OneOrder, Zenon
<1>16. x \in MergeIterator
  BY <1>11, Zenon DEF Ready, Good
<1> QED
  BY <1>5, <1>10, <1>15, <1>16, Zenon DEF Iterates
------------------------------------------------------------------------------
(* Branches over branches *)

\* The values of a function that starts with b, where H takes each to the next.
Chains(f, n, b, H) == f[0] = b /\ \A l \in 1 .. n : f[l] = H[l][f[l - 1]]

\* There is one such function.
LEMMA ChainExists ==
  ASSUME NEW n \in Nat, NEW V, NEW b \in V, NEW H, \A l \in 1 .. n, v \in V : H[l][v] \in V
  PROVE  \E f \in [0 .. n -> V] : Chains(f, n, b, H)
<1> DEFINE D == 0 .. n
           size == [l \in D |-> l]
           B == [l \in D |-> [f \in [D -> V] |-> IF l = 0 THEN b ELSE H[l][f[l - 1]]]]
<1>1. size \in [D -> Nat]
  OBVIOUS
<1>2. ASSUME NEW l \in D, l # 0 PROVE l \in 1 .. n /\ l - 1 \in D /\ size[l - 1] < size[l]
  BY <1>2
<1> HIDE DEF size
<1>3. ASSUME NEW l \in D, NEW f \in [D -> V]
      PROVE  B[l][f] = IF l = 0 THEN b ELSE H[l][f[l - 1]]
  BY Zenon
<1>4. 0 \in D /\ \A l \in 1 .. n : l \in D /\ l # 0
  OBVIOUS
<1> HIDE DEF B
<1>5. ASSUME NEW l \in D, NEW f \in [D -> V] PROVE B[l][f] \in V
  <2>1. CASE l = 0
    BY <1>3, <2>1, Zenon
  <2>2. CASE l # 0
    <3>1. l \in 1 .. n /\ f[l - 1] \in V
      BY <1>2, <2>2, Zenon
    <3>2. H[l][f[l - 1]] \in V
      BY <3>1, Zenon
    <3>3. B[l][f] = H[l][f[l - 1]]
      BY <1>3, <2>2, Zenon
    <3> QED
      BY <3>2, <3>3, Zenon
  <2> QED
    BY <2>1, <2>2, Zenon
<1>6. ASSUME NEW l \in D, NEW f \in [D -> V], NEW g \in [D -> V],
             \A y \in D : size[y] < size[l] => f[y] = g[y]
      PROVE  B[l][f] = B[l][g]
  <2>1. CASE l = 0
    BY <1>3, <2>1, Zenon
  <2>2. CASE l # 0
    <3>1. f[l - 1] = g[l - 1]
      BY <1>2, <1>6, <2>2, Zenon
    <3>2. B[l][f] = H[l][f[l - 1]] /\ B[l][g] = H[l][g[l - 1]]
      BY <1>3, <2>2, Zenon
    <3> QED
      BY <3>1, <3>2, Zenon
  <2> QED
    BY <2>1, <2>2, Zenon
<1>7. HasSolution(D, V, B)
  <2>1. UsesSmaller(D, V, size, B)
    BY <1>5, <1>6, Zenon DEF UsesSmaller
  <2> HIDE DEF D
  <2> QED
    BY <1>1, <2>1, Recursion, Zenon
<1>8. PICK f \in [D -> V] : \A l \in D : f[l] = B[l][f]
  BY <1>7, Zenon DEF HasSolution
<1>9. Chains(f, n, b, H)
  BY <1>3, <1>4, <1>8, Zenon DEF Chains
<1> QED
  BY <1>9, Zenon

\* The same of a function that may have other values than those in V.
ChainsIn(V, g, n, b, H) ==
  g[0] = b /\ \A l \in 1 .. n : g[l - 1] \in V => g[l] = H[l][g[l - 1]]

Agree(n, g, h) == \A l \in 0 .. n : g[l] = h[l]

\* There is no other.
LEMMA ChainUnique ==
  ASSUME NEW n \in Nat, NEW V, NEW b, NEW H, NEW h, h \in [0 .. n -> V] /\ Chains(h, n, b, H),
         NEW g, ChainsIn(V, g, n, b, H)
  PROVE  Agree(n, g, h)
<1> DEFINE S == {l \in Nat : l \in 0 .. n => g[l] = h[l]}
<1>1. ASSUME NEW l \in Nat, \A m \in Nat : m < l => m \in S PROVE l \in S
  <2> SUFFICES ASSUME l \in 0 .. n PROVE g[l] = h[l]
    BY Zenon
  <2>1. CASE l = 0
    BY <2>1, Zenon DEF Chains, ChainsIn
  <2>2. CASE l # 0
    <3>1. l - 1 \in Nat /\ l - 1 < l /\ l \in 1 .. n /\ l - 1 \in 0 .. n
      BY <2>2
    <3>2. g[l - 1] = h[l - 1]
      BY <1>1, <3>1, Zenon
    <3>3. h[l - 1] \in V
      BY <3>1, Zenon
    <3> QED
      BY <3>1, <3>2, <3>3, Zenon DEF Chains, ChainsIn
  <2> QED
    BY <2>1, <2>2, Zenon
<1>2. Nat \subseteq S
  <2> HIDE DEF S
  <2> QED
    BY <1>1, AllNaturals, Zenon
<1>3. 0 .. n \subseteq Nat
  OBVIOUS
<1> QED
  BY <1>2, <1>3, Zenon DEF Agree

\* What each branch reads, by what the one below does.
Reads(f, b, c) ==
  /\ f \in [0 .. Len(c) -> Maps] /\ f[0] = b
  /\ \A l \in 1 .. Len(c) : f[l] = [k \in Keys |-> IF c[l][k] # None THEN c[l][k] ELSE f[l - 1][k]]

\* What a branch reads is what the cache has set, over what the branch below reads.
LEMMA ReadUnfold ==
  ASSUME NEW b \in Maps, NEW c \in Seq(Caches)
  PROVE  Reads(ReadThrough(b, c), b, c)
<1> DEFINE n == Len(c)
           H == [l \in 1 .. n |-> [v \in Maps |->
                   [k \in Keys |-> IF c[l][k] # None THEN c[l][k] ELSE v[k]]]]
           Body(g, l) == IF l = 0 THEN b ELSE [k \in Keys |-> IF c[l][k] # None THEN c[l][k] ELSE g[l - 1][k]]
<1>1. n \in Nat /\ \A l \in 1 .. n : c[l] \in Caches
  OBVIOUS
<1>2. \A l \in 1 .. n, v \in Maps : [k \in Keys |-> IF c[l][k] # None THEN c[l][k] ELSE v[k]] \in Maps
  BY <1>1, Zenon DEF Caches, Maps
<1>3. \A l \in 1 .. n, v \in Maps : H[l][v] = [k \in Keys |-> IF c[l][k] # None THEN c[l][k] ELSE v[k]]
  BY Zenon
<1>4. \A l \in 1 .. n, v \in Maps : H[l][v] \in Maps
  BY <1>2, <1>3, Zenon
<1> HIDE DEF H
<1>5. PICK f \in [0 .. n -> Maps] : Chains(f, n, b, H)
  BY <1>1, <1>4, ChainExists, Zenon
<1>6. \A l \in 1 .. n : l # 0 /\ l \in 0 .. n /\ l - 1 \in 0 .. n
  BY <1>1
<1>7. 0 \in 0 .. n /\ \A l \in 0 .. n : l = 0 \/ l \in 1 .. n
  BY <1>1
<1>8. ASSUME NEW l \in 0 .. n PROVE f[l] = Body(f, l)
  <2>1. CASE l = 0
    BY <1>5, <2>1, Zenon DEF Chains
  <2>2. CASE l # 0
    <3>1. l \in 1 .. n /\ f[l - 1] \in Maps
      BY <1>6, <1>7, <2>2, Zenon
    <3>2. f[l] = H[l][f[l - 1]]
      BY <1>5, <3>1, Zenon DEF Chains
    <3> QED
      BY <1>3, <2>2, <3>1, <3>2, Zenon
  <2> QED
    BY <2>1, <2>2, Zenon
<1>9. f = [l \in 0 .. n |-> Body(f, l)]
  BY <1>8, Zenon
<1>10. PICK g : g = ReadThrough(b, c)
  BY Zenon
<1>11. g = [l \in 0 .. n |-> Body(g, l)]
  BY <1>9, <1>10, Zenon DEF ReadThrough
<1>12. \A l \in 0 .. n : g[l] = Body(g, l)
  BY <1>11, Zenon
<1>13. g[0] = b
  BY <1>7, <1>12, Zenon
<1>14. \A l \in 1 .. n : g[l] = [k \in Keys |-> IF c[l][k] # None THEN c[l][k] ELSE g[l - 1][k]]
  BY <1>6, <1>12, Zenon
<1>15. \A l \in 1 .. n : g[l - 1] \in Maps => g[l] = H[l][g[l - 1]]
  BY <1>3, <1>14, Zenon
<1>16. \A l \in 0 .. n : g[l] = f[l]
  <2>1. ChainsIn(Maps, g, n, b, H)
    BY <1>13, <1>15, Zenon DEF ChainsIn
  <2>2. Agree(n, g, f)
    <3> HIDE DEF n
    <3> QED
      BY <1>1, <1>5, <2>1, ChainUnique, Zenon
  <2> QED
    BY <2>2, Zenon DEF Agree
<1>17. g \in [0 .. n -> Maps]
  BY <1>11, <1>16, Zenon
<1> QED
  BY <1>10, <1>13, <1>14, <1>17, Zenon DEF Reads
\* What the search for keys finds in each branch, by what it finds below.
Finds(f, b, c, r) ==
  /\ \A l \in 0 .. Len(c) : f[l] \subseteq Keys
  /\ f[0] = {k \in Keys : IsKeyInDomain(k, r) /\ b[k] # Nil}
  /\ \A l \in 1 .. Len(c) :
       f[l] = (f[l - 1] \cup {k \in Keys : InKeyRange(k, r) /\ c[l][k] \notin {None, Nil}})
                \ {k \in Keys : InKeyRange(k, r) /\ c[l][k] = Nil}

\* GetAllKeyStrsInRange adds what a cache has set in the range and takes away
\* what it has deleted.
LEMMA KeysUnfold ==
  ASSUME NEW b \in Maps, NEW c \in Seq(Caches), NEW r \in Ranges
  PROVE  Finds(KeysThrough(b, c, r), b, c, r)
<1> DEFINE n == Len(c)
           V == SUBSET Keys
           v0 == {k \in Keys : IsKeyInDomain(k, r) /\ b[k] # Nil}
           Added(l) == {k \in Keys : InKeyRange(k, r) /\ c[l][k] \notin {None, Nil}}
           Removed(l) == {k \in Keys : InKeyRange(k, r) /\ c[l][k] = Nil}
           H == [l \in 1 .. n |-> [v \in V |-> (v \cup Added(l)) \ Removed(l)]]
           Body(g, l) == IF l = 0 THEN v0 ELSE (g[l - 1] \cup Added(l)) \ Removed(l)
<1>1. n \in Nat
  OBVIOUS
<1>2. v0 \in V /\ \A l \in 1 .. n : Added(l) \in V
  BY Zenon
<1>9. PICK g : g = KeysThrough(b, c, r)
  BY Zenon
<1>10. (\E f : f = [l \in 0 .. n |-> Body(f, l)]) => g = [l \in 0 .. n |-> Body(g, l)]
  BY <1>9, Zenon DEF KeysThrough
<1>11. g[0] = v0 /\ (\A l \in 1 .. n : g[l] = (g[l - 1] \cup Added(l)) \ Removed(l))
         => /\ g[0] = {k \in Keys : IsKeyInDomain(k, r) /\ b[k] # Nil}
            /\ \A l \in 1 .. n :
                 g[l] = (g[l - 1] \cup {k \in Keys : InKeyRange(k, r) /\ c[l][k] \notin {None, Nil}})
                          \ {k \in Keys : InKeyRange(k, r) /\ c[l][k] = Nil}
  BY Zenon
<1> HIDE DEF v0, Added, Removed
<1>3. \A l \in 1 .. n, v \in V : H[l][v] = (v \cup Added(l)) \ Removed(l)
  BY Zenon
<1>4. \A l \in 1 .. n, v \in V : H[l][v] \in V
  BY <1>2, <1>3, Zenon
<1> HIDE DEF H, V
<1>5. PICK f \in [0 .. n -> V] : Chains(f, n, v0, H)
  BY <1>1, <1>2, <1>4, ChainExists, Zenon
<1>6. \A l \in 1 .. n : l # 0 /\ l \in 0 .. n /\ l - 1 \in 0 .. n
  BY <1>1
<1>7. 0 \in 0 .. n /\ \A l \in 0 .. n : l = 0 \/ l \in 1 .. n
  BY <1>1
<1>8. ASSUME NEW l \in 0 .. n PROVE f[l] = Body(f, l)
  <2>1. CASE l = 0
    BY <1>5, <2>1, Zenon DEF Chains
  <2>2. CASE l # 0
    <3>1. l \in 1 .. n /\ f[l - 1] \in V
      BY <1>6, <1>7, <2>2, Zenon
    <3>2. f[l] = H[l][f[l - 1]]
      BY <1>5, <3>1, Zenon DEF Chains
    <3> QED
      BY <1>3, <2>2, <3>1, <3>2, Zenon
  <2> QED
    BY <2>1, <2>2, Zenon
<1>12. f = [l \in 0 .. n |-> Body(f, l)]
  BY <1>8, Zenon
<1>13. \A l \in 0 .. n : g[l] = Body(g, l)
  BY <1>10, <1>12, Zenon
<1>14. g[0] = v0 /\ \A l \in 1 .. n : g[l] = (g[l - 1] \cup Added(l)) \ Removed(l)
  BY <1>6, <1>7, <1>13, Zenon
<1>15. \A l \in 0 .. n : g[l] \subseteq Keys
  <2>1. ChainsIn(V, g, n, v0, H)
    BY <1>3, <1>14, Zenon DEF ChainsIn
  <2>2. Agree(n, g, f)
    <3> HIDE DEF n
    <3> QED
      BY <1>1, <1>5, <2>1, ChainUnique, Zenon
  <2> QED
    BY <2>2, Zenon DEF Agree, V
<1> QED
  BY <1>9, <1>11, <1>14, <1>15, Zenon DEF Finds

\* What the iterators of the branches give, by what those below do.
Gives(f, p, c, n, ascending) ==
  f[0] = p /\ \A l \in 1 .. n : f[l] = Drained[NewCacheMergeIterator(f[l - 1], c[l], ascending)]

\* The iterator of each branch merges its tree with what the one below gives.
LEMMA GivenUnfold ==
  ASSUME NEW n \in Nat, NEW p \in Seq(Pair), NEW c \in Seq(Seq(Pair)), n = Len(c), NEW ascending \in BOOLEAN
  PROVE  Gives(GivenThrough(p, c, ascending), p, c, n, ascending)
<1> DEFINE V == Seq(Pair)
           H == [l \in 1 .. n |-> [v \in V |-> Drained[NewCacheMergeIterator(v, c[l], ascending)]]]
           Body(g, l) == IF l = 0 THEN p ELSE Drained[NewCacheMergeIterator(g[l - 1], c[l], ascending)]
<1>1. \A l \in 1 .. n : c[l] \in V
  OBVIOUS
<1>2. ASSUME NEW s \in V, NEW t \in V PROVE Drained[NewCacheMergeIterator(s, t, ascending)] \in V
  <2>1. [parent |-> s, cache |-> t, ascending |-> ascending] \in MergeIterator
    BY Zenon DEF MergeIterator
  <2>2. NewCacheMergeIterator(s, t, ascending) \in MergeIterator
    BY <2>1, SkipUnfold, Zenon DEF NewCacheMergeIterator
  <2> QED
    BY <2>2, DrainedUnfold, Zenon
<1>3. \A l \in 1 .. n, v \in V : H[l][v] = Drained[NewCacheMergeIterator(v, c[l], ascending)]
  BY Zenon
<1>4. \A l \in 1 .. n, v \in V : H[l][v] \in V
  BY <1>1, <1>2, <1>3, Zenon
<1> HIDE DEF H
<1>5. PICK f \in [0 .. n -> V] : Chains(f, n, p, H)
  BY <1>4, ChainExists, Zenon
<1>6. \A l \in 1 .. n : l # 0 /\ l \in 0 .. n /\ l - 1 \in 0 .. n
  OBVIOUS
<1>7. 0 \in 0 .. n /\ \A l \in 0 .. n : l = 0 \/ l \in 1 .. n
  OBVIOUS
<1>8. ASSUME NEW l \in 0 .. n PROVE f[l] = Body(f, l)
  <2>1. CASE l = 0
    BY <1>5, <2>1, Zenon DEF Chains
  <2>2. CASE l # 0
    <3>1. l \in 1 .. n /\ f[l - 1] \in V
      BY <1>6, <1>7, <2>2, Zenon
    <3>2. f[l] = H[l][f[l - 1]]
      BY <1>5, <3>1, Zenon DEF Chains
    <3> QED
      BY <1>3, <2>2, <3>1, <3>2, Zenon
  <2> QED
    BY <2>1, <2>2, Zenon
<1>9. f = [l \in 0 .. n |-> Body(f, l)]
  BY <1>8, Zenon
<1>10. PICK g : g = GivenThrough(p, c, ascending)
  BY Zenon
<1>11. g = [l \in 0 .. n |-> Body(g, l)]
  BY <1>9, <1>10, Zenon DEF GivenThrough
<1>12. \A l \in 0 .. n : g[l] = Body(g, l)
  BY <1>11, Zenon
<1>13. g[0] = p /\ \A l \in 1 .. n : g[l] = Drained[NewCacheMergeIterator(g[l - 1], c[l], ascending)]
  BY <1>6, <1>7, <1>12, Zenon
<1> QED
  BY <1>10, <1>13, Zenon DEF Gives
\* The branches that two stacks share read the same.
LEMMA ReadAgree ==
  ASSUME NEW b \in Maps, NEW c \in Seq(Caches), NEW d \in Seq(Caches), NEW n \in Nat,
         n <= Len(c), n <= Len(d), \A l \in 1 .. n : c[l] = d[l]
  PROVE  \A l \in 0 .. n : ReadThrough(b, c)[l] = ReadThrough(b, d)[l]
<1>0. Reads(ReadThrough(b, c), b, c) /\ Reads(ReadThrough(b, d), b, d)
  BY ReadUnfold, Zenon
<1> DEFINE S == {l \in Nat : l \in 0 .. n => ReadThrough(b, c)[l] = ReadThrough(b, d)[l]}
<1>1. ASSUME NEW l \in Nat, \A m \in Nat : m < l => m \in S PROVE l \in S
  <2> SUFFICES ASSUME l \in 0 .. n PROVE ReadThrough(b, c)[l] = ReadThrough(b, d)[l]
    BY Zenon
  <2>1. CASE l = 0
    BY <1>0, <2>1, Zenon DEF Reads
  <2>2. CASE l # 0
    <3>1. /\ l - 1 \in Nat /\ l - 1 < l /\ l - 1 \in 0 .. n
          /\ l \in 1 .. n /\ l \in 1 .. Len(c) /\ l \in 1 .. Len(d)
      BY <2>2
    <3>2. ReadThrough(b, c)[l - 1] = ReadThrough(b, d)[l - 1] /\ c[l] = d[l]
      BY <1>1, <3>1, Zenon
    <3>3. ReadThrough(b, c)[l] = [k \in Keys |-> IF c[l][k] # None THEN c[l][k] ELSE ReadThrough(b, c)[l - 1][k]]
      BY <1>0, <3>1, Zenon DEF Reads
    <3>4. ReadThrough(b, d)[l] = [k \in Keys |-> IF d[l][k] # None THEN d[l][k] ELSE ReadThrough(b, d)[l - 1][k]]
      BY <1>0, <3>1, Zenon DEF Reads
    <3> QED
      BY <3>2, <3>3, <3>4, Zenon
  <2> QED
    BY <2>1, <2>2, Zenon
<1>2. Nat \subseteq S
  <2> HIDE DEF S
  <2> QED
    BY <1>1, AllNaturals, Zenon
<1>3. 0 .. n \subseteq Nat
  OBVIOUS
<1> QED
  BY <1>2, <1>3, Zenon

\* The search for keys finds those that the branch reads.
LEMMA KeysRead ==
  ASSUME NEW b \in Maps, NEW c \in Seq(Caches), NEW r \in Ranges, r.end # None
  PROVE  \A l \in 0 .. Len(c) :
           KeysThrough(b, c, r)[l] = {k \in Keys : IsKeyInDomain(k, r) /\ ReadThrough(b, c)[l][k] # Nil}
<1>0. Reads(ReadThrough(b, c), b, c) /\ Finds(KeysThrough(b, c, r), b, c, r)
  BY ReadUnfold, KeysUnfold, Zenon
<1> DEFINE Found(l) == {k \in Keys : IsKeyInDomain(k, r) /\ ReadThrough(b, c)[l][k] # Nil}
           S == {l \in Nat : l \in 0 .. Len(c) => KeysThrough(b, c, r)[l] = Found(l)}
<1>1. ASSUME NEW l \in Nat, \A m \in Nat : m < l => m \in S PROVE l \in S
  <2> SUFFICES ASSUME l \in 0 .. Len(c) PROVE KeysThrough(b, c, r)[l] = Found(l)
    BY Zenon
  <2>1. CASE l = 0
    <3>1. ReadThrough(b, c)[0] = b /\ KeysThrough(b, c, r)[0] = {k \in Keys : IsKeyInDomain(k, r) /\ b[k] # Nil}
      BY <1>0, Zenon DEF Reads, Finds
    <3> QED
      BY <2>1, <3>1, Zenon
  <2>2. CASE l # 0
    <3>1. /\ l - 1 \in Nat /\ l - 1 < l /\ l - 1 \in 0 .. Len(c) /\ l \in 1 .. Len(c)
      BY <2>2
    <3>2. PICK f \in Maps : f = ReadThrough(b, c)[l - 1]
      BY <1>0, <3>1, Zenon DEF Reads
    <3>3. KeysThrough(b, c, r)[l - 1] = {k \in Keys : IsKeyInDomain(k, r) /\ f[k] # Nil}
      BY <1>1, <3>1, <3>2, Zenon
    <3>4. ReadThrough(b, c)[l] = [k \in Keys |-> IF c[l][k] # None THEN c[l][k] ELSE f[k]]
      BY <1>0, <3>1, <3>2, Zenon DEF Reads
    <3>5. KeysThrough(b, c, r)[l] =
            (KeysThrough(b, c, r)[l - 1] \cup {k \in Keys : InKeyRange(k, r) /\ c[l][k] \notin {None, Nil}})
              \ {k \in Keys : InKeyRange(k, r) /\ c[l][k] = Nil}
      BY <1>0, <3>1, Zenon DEF Finds
    <3>6. \A k \in Keys : InKeyRange(k, r) <=> IsKeyInDomain(k, r)
      BY Zenon DEF InKeyRange
    <3>7. \A k \in Keys : ReadThrough(b, c)[l][k] = IF c[l][k] # None THEN c[l][k] ELSE f[k]
      BY <3>4, Zenon
    <3>8. ASSUME NEW k \in Keys
          PROVE  k \in KeysThrough(b, c, r)[l] <=> IsKeyInDomain(k, r) /\ ReadThrough(b, c)[l][k] # Nil
      <4>1. k \in KeysThrough(b, c, r)[l] <=>
              (IsKeyInDomain(k, r) /\ (f[k] # Nil \/ c[l][k] \notin {None, Nil})) /\ ~(IsKeyInDomain(k, r) /\ c[l][k] = Nil)
        BY <3>3, <3>5, <3>6, Zenon
      <4> QED
        BY <3>7, <4>1, ValueFacts, Zenon
    <3>9. KeysThrough(b, c, r)[l] \subseteq Keys
      BY <1>0, Zenon DEF Finds
    <3> QED
      BY <3>8, <3>9, Zenon
  <2> QED
    BY <2>1, <2>2, Zenon
<1>2. Nat \subseteq S
  <2> HIDE DEF S
  <2> QED
    BY <1>1, AllNaturals, Zenon
<1>3. 0 .. Len(c) \subseteq Nat
  OBVIOUS
<1> QED
  BY <1>2, <1>3, Zenon

\* What the base store's iterator and those of the trees give are pairs.
LEMMA PairSequences ==
  ASSUME NEW r \in Ranges, NEW ascending \in BOOLEAN
  PROVE  /\ \A m \in Maps : Contents(m, r, ascending) \in Seq(Pair)
         /\ \A t \in Caches : MemIterator(t, r, ascending) \in Seq(Pair)
<1>1. ASSUME NEW m \in Maps PROVE Contents(m, r, ascending) \in Seq(Pair)
  <2> DEFINE S == {k \in Keys : IsKeyInDomain(k, r) /\ m[k] # Nil}
  <2>1. S \subseteq Keys /\ \A k \in S : m[k] \in Values \cup {Nil}
    BY Zenon DEF Maps
  <2>2. Contents(m, r, ascending) = Pairs(m, S, ascending)
    BY Zenon DEF Contents
  <2> HIDE DEF S
  <2>3. ListsPairs(Contents(m, r, ascending), m, S, ascending)
    BY <2>1, <2>2, PairsInOrder, Zenon
  <2> QED
    BY <2>3, Zenon DEF ListsPairs
<1>2. ASSUME NEW t \in Caches PROVE MemIterator(t, r, ascending) \in Seq(Pair)
  <2> DEFINE T == {k \in Keys : t[k] # None}
             S == {k \in T : IsKeyInDomain(k, r)}
  <2>1. S \subseteq Keys /\ \A k \in S : t[k] \in Values \cup {Nil}
    BY Zenon DEF Caches
  <2>2. T \subseteq Keys
    BY Zenon
  <2>3. MemIterator(t, r, ascending) = Pairs(t, S, ascending)
    BY <2>2, MemKeysInDomain, Zenon DEF MemIterator
  <2> HIDE DEF S
  <2>4. ListsPairs(MemIterator(t, r, ascending), t, S, ascending)
    BY <2>1, <2>3, PairsInOrder, Zenon
  <2> QED
    BY <2>4, Zenon DEF ListsPairs
<1> QED
  BY <1>1, <1>2, Zenon

\* The tree u holds what the cache of a branch does, in a range, so that its
\* iterator gives what the branch reads, if the one below does.
LEMMA LevelGives ==
  ASSUME NEW b \in Maps, NEW c \in Seq(Caches), NEW l \in 1 .. Len(c), NEW u \in Caches,
         NEW r \in Ranges, NEW ascending \in BOOLEAN, \A k \in Keys : IsKeyInDomain(k, r) => u[k] = c[l][k]
  PROVE  LET y == NewCacheMergeIterator(Contents(ReadThrough(b, c)[l - 1], r, ascending),
                                        MemIterator(u, r, ascending), ascending)
         IN  y \in MergeIterator /\ Drained[y] = Contents(ReadThrough(b, c)[l], r, ascending)
<1>1. Reads(ReadThrough(b, c), b, c)
  BY ReadUnfold, Zenon
<1>2. l - 1 \in 0 .. Len(c) /\ l \in 0 .. Len(c)
  OBVIOUS
<1>3. PICK m \in Maps : m = ReadThrough(b, c)[l - 1]
  BY <1>1, <1>2, Zenon DEF Reads
<1>4. PICK w \in Maps : w = ReadThrough(b, c)[l]
  BY <1>1, <1>2, Zenon DEF Reads
<1>5. w = [k \in Keys |-> IF c[l][k] # None THEN c[l][k] ELSE m[k]]
  BY <1>1, <1>3, <1>4, Zenon DEF Reads
<1>6. Overlaid(w, m, u, r)
  BY <1>5, Zenon DEF Overlaid
<1>7. Iterates(NewCacheMergeIterator(Contents(m, r, ascending), MemIterator(u, r, ascending), ascending),
               w, r, ascending)
  BY <1>6, OpenGives, Zenon
<1> QED
  BY <1>3, <1>4, <1>7, Zenon DEF Iterates

\* The trees t hold what the caches c do, in a range.
HoldIn(t, c, n, r) ==
  /\ t \in [1 .. n -> Caches]
  /\ \A l \in 1 .. n : \A k \in Keys : IsKeyInDomain(k, r) => t[l][k] = c[l][k]

\* What their iterators give, and the iterator of a branch over those below.
TreeIterators(t, n, r, ascending) == [l \in 1 .. n |-> MemIterator(t[l], r, ascending)]
MergeAt(b, d, r, ascending, i) ==
  NewCacheMergeIterator(GivenThrough(Contents(b, r, ascending), d, ascending)[i - 1], d[i], ascending)

\* The iterator of each branch gives what the branch reads.
LEMMA LevelsGive ==
  ASSUME NEW b \in Maps, NEW n \in Nat, NEW c \in Seq(Caches), n = Len(c), NEW r \in Ranges,
         NEW t, HoldIn(t, c, n, r), NEW ascending \in BOOLEAN, NEW i \in 1 .. n
  PROVE  Iterates(MergeAt(b, TreeIterators(t, n, r, ascending), r, ascending, i),
                  ReadThrough(b, c)[i], r, ascending)
<1> SUFFICES ASSUME NEW d, d = [l \in 1 .. n |-> MemIterator(t[l], r, ascending)],
                    NEW g, g = GivenThrough(Contents(b, r, ascending), d, ascending),
                    NEW x, x = NewCacheMergeIterator(g[i - 1], d[i], ascending)
             PROVE  x \in MergeIterator /\ Drained[x] = Contents(ReadThrough(b, c)[i], r, ascending)
  BY Zenon DEF Iterates, TreeIterators, MergeAt
<1> t \in [1 .. n -> Caches] /\ \A l \in 1 .. n : \A k \in Keys : IsKeyInDomain(k, r) => t[l][k] = c[l][k]
  BY Zenon DEF HoldIn
<1> DEFINE Q(l) == Contents(ReadThrough(b, c)[l], r, ascending)
<1>1. Reads(ReadThrough(b, c), b, c)
  BY ReadUnfold, Zenon
<1>2. \A l \in 1 .. n : d[l] = MemIterator(t[l], r, ascending) /\ d[l] \in Seq(Pair)
  BY PairSequences, Zenon
<1>3. d \in Seq(Seq(Pair)) /\ Len(d) = n
  BY <1>2
<1>4. /\ g[0] = Contents(b, r, ascending)
      /\ \A l \in 1 .. n : g[l] = Drained[NewCacheMergeIterator(g[l - 1], d[l], ascending)]
  <2>1. PICK p \in Seq(Pair) : p = Contents(b, r, ascending)
    BY PairSequences, Zenon
  <2>2. PICK e \in Seq(Seq(Pair)) : e = d
    BY <1>3, Zenon
  <2>3. n = Len(e)
    BY <1>3, <2>2, Zenon
  <2>4. Gives(GivenThrough(p, e, ascending), p, e, n, ascending)
    BY <2>3, GivenUnfold, Zenon
  <2>5. Gives(g, p, e, n, ascending)
    BY <2>1, <2>2, <2>4, Zenon
  <2> QED
    BY <2>1, <2>2, <2>5, Zenon DEF Gives
<1>5. ASSUME NEW l \in 1 .. n, NEW y, y = NewCacheMergeIterator(Q(l - 1), d[l], ascending)
      PROVE  y \in MergeIterator /\ Drained[y] = Q(l)
  <2>1. PICK u \in Caches : u = t[l]
    BY Zenon
  <2>2. \A k \in Keys : IsKeyInDomain(k, r) => u[k] = c[l][k]
    BY <2>1, Zenon
  <2>3. y = NewCacheMergeIterator(Q(l - 1), MemIterator(u, r, ascending), ascending)
    BY <1>2, <1>5, <2>1, Zenon
  <2> HIDE DEF Q
  <2> QED
    BY <2>2, <2>3, LevelGives, SMTT(20) DEF Q
<1> DEFINE S == {l \in Nat : l \in 0 .. n => g[l] = Q(l)}
<1>6. ASSUME NEW l \in Nat, \A m \in Nat : m < l => m \in S PROVE l \in S
  <2> SUFFICES ASSUME l \in 0 .. n PROVE g[l] = Q(l)
    BY Zenon
  <2>1. CASE l = 0
    BY <1>1, <1>4, <2>1, Zenon DEF Reads
  <2>2. CASE l # 0
    <3>1. l - 1 \in Nat /\ l - 1 < l /\ l \in 1 .. n /\ l - 1 \in 0 .. n
      BY <2>2
    <3>2. g[l - 1] = Q(l - 1)
      BY <1>6, <3>1, Zenon
    <3>3. g[l] = Drained[NewCacheMergeIterator(g[l - 1], d[l], ascending)]
      BY <1>4, <3>1, Zenon
    <3> QED
      BY <1>5, <3>1, <3>2, <3>3, Zenon
  <2> QED
    BY <2>1, <2>2, Zenon
<1>7. Nat \subseteq S
  <2> HIDE DEF S
  <2> QED
    BY <1>6, AllNaturals, Zenon
<1>8. i - 1 \in Nat /\ i - 1 \in 0 .. n
  OBVIOUS
<1>9. x = NewCacheMergeIterator(Q(i - 1), d[i], ascending)
  BY <1>7, <1>8, Zenon
<1> QED
  BY <1>5, <1>9, Zenon
==============================================================================
