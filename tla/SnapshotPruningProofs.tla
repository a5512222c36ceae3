------------------------ MODULE SnapshotPruningProofs ------------------------
(***************************************************************************)
(* Proofs about SnapshotPruning, for any number of stores and heights, any *)
(* pruning options and any number of crashes, of a node that is always     *)
(* started with the same snapshot interval.                                *)
(***************************************************************************)
EXTENDS SnapshotPruning, WellFoundedInduction, TLAPS

------------------------------------------------------------------------------
(* Least and greatest elements, multiples *)

\* A set of naturals that is not empty has a least element, and Least is it.
LEMMA LeastElement ==
  ASSUME NEW S, S \subseteq Nat, S # {}
  PROVE  Least(S) \in S /\ \A g \in S : Least(S) <= g
<1> DEFINE R == OpToRel(<, Nat)
<1>1. \A x, y \in Nat : y < x => <<y, x>> \in R
  BY Zenon DEF OpToRel
<1>2. IsWellFoundedOn(R, Nat)
  BY NatLessThanWellFounded, Zenon
<1> HIDE DEF R
<1>3. PICK x \in S : \A y \in S : ~(<<y, x>> \in R)
  BY <1>2, WFMin, Zenon
<1>4. ASSUME NEW y \in S PROVE x <= y
  <2>1. /\ x \in Nat
        /\ y \in Nat
    BY Zenon
  <2>2. ~(<<y, x>> \in R)
    BY <1>3, Zenon
  <2>3. ~(y < x)
    BY <1>1, <2>1, <2>2, Zenon
  <2> QED
    BY <2>1, <2>3
<1> QED
  BY <1>4, Zenon DEF Least

\* A set of heights that is not empty has a greatest element.
LEMMA GreatestHeight ==
  ASSUME NEW S, S \subseteq Height, S # {}
  PROVE  \E z \in S : \A y \in S : y <= z
<1> DEFINE T == {MaxHeight - y : y \in S}
<1>1. T \subseteq Nat /\ T # {}
  <2>1. \A y \in S : MaxHeight - y \in Nat
    BY PruningAssumption DEF Height
  <2> QED
    BY <2>1, Zenon
<1> HIDE DEF T
<1>2. Least(T) \in T /\ \A g \in T : Least(T) <= g
  BY <1>1, LeastElement, Zenon
<1>3. PICK z \in S : Least(T) = MaxHeight - z
  BY <1>2, Zenon DEF T
<1>4. ASSUME NEW y \in S PROVE y <= z
  <2>1. MaxHeight - y \in T
    BY Zenon DEF T
  <2> QED
    BY <1>2, <1>3, <2>1, PruningAssumption DEF Height
<1> QED
  BY <1>4, Zenon

\* Two multiples of a number are that number apart.
LEMMA MultiplesApart ==
  ASSUME NEW n \in Nat, n > 0, NEW a \in Nat, NEW b \in Nat,
         a % n = 0, b % n = 0, a < b
  PROVE  a + n <= b
<1> DEFINE p == a \div n
           q == b \div n
<1>1. p \in Int /\ q \in Int /\ a = n * p /\ b = n * q
  OBVIOUS
<1> HIDE DEF p, q
<1>2. p < q
  BY <1>1
<1>3. n * (p + 1) <= n * q
  BY <1>1, <1>2
<1> QED
  BY <1>1, <1>3

------------------------------------------------------------------------------
(* The list of heights *)

\* What the loop of HandleSnapshotHeight leaves of a list of multiples of the
\* interval: a part that is not empty, whose first entry is no lower, and that
\* still starts before any multiple missing from a list that did.
LEMMA TrimFacts ==
  ASSUME snapshotInterval \in Nat, snapshotInterval > 0,
         NEW b \in [Height -> Nat], Listed(b) # {},
         \A g \in Listed(b) : g % snapshotInterval = 0
  PROVE  /\ Trim(b) \in [Height -> Nat]
         /\ \A h \in Height : Trim(b)[h] = 0 \/ Trim(b)[h] = b[h]
         /\ Listed(Trim(b)) # {}
         /\ Least(Listed(Trim(b))) >= Least(Listed(b))
         /\ \A g \in Height :
              g % snapshotInterval = 0 /\ b[g] = 0 /\ Least(Listed(b)) < g
                => Least(Listed(Trim(b))) < g
<1> DEFINE N == {g \in Listed(b) : ~Passes(b, g)}
           n == Least(N)
<1>0. /\ Listed(b) \subseteq Height
      /\ Height \subseteq Nat
  BY PruningAssumption DEF Listed, Height
<1>1. N # {}
  <2>1. PICK z \in Listed(b) : \A y \in Listed(b) : y <= z
    BY <1>0, GreatestHeight, Zenon
  <2>2. z \in Nat /\ ~(z + snapshotInterval <= z)
    <3>1. z \in Nat
      BY <1>0, Zenon
    <3> QED
      BY <3>1
  <2>3. z + snapshotInterval \notin Listed(b)
    BY <2>1, <2>2, Zenon
  <2> QED
    BY <2>3, Zenon DEF Passes
<1>2. N \subseteq Listed(b) /\ N \subseteq Nat
  BY <1>0, Zenon
<1>3. n \in N /\ \A g \in N : n <= g
  BY <1>1, <1>2, LeastElement, Zenon
<1>4. Trim(b) = [h \in Height |-> IF h < n THEN 0 ELSE b[h]]
  BY Zenon DEF Trim
<1>5. \A g \in Listed(b) : g < n => Passes(b, g)
  <2> SUFFICES ASSUME NEW g \in Listed(b), g < n, ~Passes(b, g) PROVE FALSE
    BY Zenon
  <2>1. g \in N
    BY Zenon
  <2> QED
    BY <1>0, <1>2, <1>3, <2>1
<1>6. n \in Listed(b) /\ n \in Nat
  BY <1>2, <1>3, Zenon
<1> HIDE DEF N, n
<1>7. Listed(Trim(b)) = {h \in Listed(b) : n <= h}
  <2>1. ASSUME NEW h \in Height
        PROVE  h \in Listed(Trim(b)) <=> h \in Listed(b) /\ n <= h
    <3>1. h \in Listed(Trim(b)) <=> Trim(b)[h] > 0
      BY Zenon DEF Listed
    <3>2. h \in Listed(b) <=> b[h] > 0
      BY Zenon DEF Listed
    <3>3. h \in Nat /\ n \in Nat /\ b[h] \in Nat
      BY <1>0, <1>6, Zenon
    <3> QED
      BY <1>4, <3>1, <3>2, <3>3
  <2> QED
    BY <2>1, Zenon DEF Listed
<1>8. n \in Listed(Trim(b)) /\ \A h \in Listed(Trim(b)) : n <= h
  BY <1>6, <1>7
<1>9. Least(Listed(Trim(b))) = n
  <2>1. Listed(Trim(b)) \subseteq Nat /\ Listed(Trim(b)) # {}
    BY <1>0, <1>7, <1>8, Zenon
  <2>2. /\ Least(Listed(Trim(b))) \in Listed(Trim(b))
        /\ \A g \in Listed(Trim(b)) : Least(Listed(Trim(b))) <= g
    BY <2>1, LeastElement, Zenon
  <2> QED
    BY <1>6, <1>8, <2>1, <2>2
<1>10. Least(Listed(b)) \in Listed(b) /\ \A g \in Listed(b) : Least(Listed(b)) <= g
  <2>1. Listed(b) \subseteq Nat
    BY <1>0, Zenon
  <2> QED
    BY <2>1, LeastElement, Zenon
<1>11. n >= Least(Listed(b))
  BY <1>0, <1>6, <1>10, Zenon
<1>12. ASSUME NEW g \in Height, g % snapshotInterval = 0, b[g] = 0,
              Least(Listed(b)) < g
       PROVE  n < g
  <2> SUFFICES ASSUME ~(n < g) PROVE FALSE
    BY Zenon
  <2>1. g < n
    <3>1. n # g
      BY <1>6, <1>12 DEF Listed
    <3> QED
      BY <1>0, <1>6, <3>1
  <2> DEFINE S == {h \in Listed(b) : h < g}
  <2>2. S # {} /\ S \subseteq Height
    BY <1>0, <1>10, <1>12, Zenon
  <2>3. PICK z \in S : \A y \in S : y <= z
    BY <2>2, GreatestHeight, Zenon
  <2>4. z \in Listed(b) /\ z < g /\ z \in Nat /\ g \in Nat
    BY <1>0, Zenon
  <2>5. z + snapshotInterval \in Listed(b)
    BY <1>5, <1>6, <2>1, <2>4 DEF Passes
  <2>6. z + snapshotInterval <= g
    BY <1>12, <2>4, MultiplesApart, Zenon
  <2>7. z + snapshotInterval # g
    BY <1>12, <2>5 DEF Listed
  <2>8. z + snapshotInterval \in S
    BY <2>4, <2>5, <2>6, <2>7
  <2> QED
    BY <2>3, <2>4, <2>8
<1>13. Trim(b) \in [Height -> Nat]
  BY <1>4
<1>14. \A h \in Height : Trim(b)[h] = 0 \/ Trim(b)[h] = b[h]
  BY <1>4, Zenon
<1> QED
  BY <1>8, <1>9, <1>11, <1>12, <1>13, <1>14, Zenon

\* HandleSnapshotHeight of a missing multiple beyond the first entry: entries
\* are only added at that height, the first entry does not move back, and every
\* other missing multiple beyond it stays beyond it.
LEMMA HandledHeights ==
  ASSUME snapshotInterval \in Nat, snapshotInterval > 0,
         NEW hs \in [Height -> Nat], Listed(hs) # {},
         \A g \in Listed(hs) : g % snapshotInterval = 0,
         NEW h \in Height, h % snapshotInterval = 0, hs[h] = 0,
         Least(Listed(hs)) < h,
         NEW b \in [Height -> Nat], b[h] = 1, \A g \in Height \ {h} : b[g] = hs[g],
         NEW t, t = Trim(b)
  PROVE  /\ t \in [Height -> Nat]
         /\ Listed(t) # {}
         /\ \A g \in Listed(t) : g = h \/ g \in Listed(hs)
         /\ Least(Listed(t)) >= Least(Listed(hs))
         /\ \A g \in Height \ {h} :
              /\ hs[g] = 0 => t[g] = 0
              /\ g % snapshotInterval = 0 /\ hs[g] = 0 /\ Least(Listed(hs)) < g
                   => Least(Listed(t)) < g
<1>0. Height \subseteq Nat
  BY PruningAssumption DEF Height
<1>1. b \in [Height -> Nat] /\ b[h] = 1 /\ \A g \in Height \ {h} : b[g] = hs[g]
  BY Zenon
<1>2. Listed(b) = Listed(hs) \cup {h}
  BY <1>1 DEF Listed
<1>3. /\ Listed(hs) \subseteq Nat
      /\ Listed(b) \subseteq Nat
      /\ Listed(b) # {}
  BY <1>0, <1>2, Zenon DEF Listed
<1>4. /\ Least(Listed(hs)) \in Listed(hs)
      /\ \A g \in Listed(hs) : Least(Listed(hs)) <= g
  BY <1>3, LeastElement, Zenon
<1>5. /\ Least(Listed(b)) \in Listed(b)
      /\ \A g \in Listed(b) : Least(Listed(b)) <= g
  BY <1>3, LeastElement, Zenon
<1>6. Least(Listed(b)) = Least(Listed(hs))
  <2> DEFINE x == Least(Listed(hs))
             y == Least(Listed(b))
  <2>1. x \in Listed(hs) /\ x \in Listed(b) /\ y \in Listed(b)
    BY <1>2, <1>4, <1>5, Zenon
  <2>2. x \in Nat /\ y \in Nat /\ h \in Nat /\ x < h
    BY <1>0, <1>3, <2>1, Zenon
  <2>3. y <= x
    BY <1>5, <2>1, Zenon
  <2>4. y # h
    BY <2>2, <2>3
  <2>5. x <= y
    BY <1>2, <1>4, <2>1, <2>4, Zenon
  <2> QED
    BY <2>2, <2>3, <2>5
<1>7. \A g \in Listed(b) : g % snapshotInterval = 0
  BY <1>2, Zenon
<1>8. /\ t \in [Height -> Nat]
      /\ \A g \in Height : t[g] = 0 \/ t[g] = b[g]
      /\ Listed(t) # {}
      /\ Least(Listed(t)) >= Least(Listed(b))
      /\ \A g \in Height :
           g % snapshotInterval = 0 /\ b[g] = 0 /\ Least(Listed(b)) < g
             => Least(Listed(t)) < g
  BY <1>1, <1>3, <1>7, TrimFacts, Zenon
<1>9. \A g \in Listed(t) : g = h \/ g \in Listed(hs)
  <2> SUFFICES ASSUME NEW g \in Listed(t), g # h PROVE g \in Listed(hs)
    BY Zenon
  <2>1. g \in Height /\ t[g] > 0
    BY Zenon DEF Listed
  <2>2. t[g] # 0
    BY <2>1
  <2>3. t[g] = hs[g]
    BY <1>1, <1>8, <2>1, <2>2, Zenon
  <2> QED
    BY <2>1, <2>3, Zenon DEF Listed
<1>10. \A g \in Height \ {h} : hs[g] = 0 => t[g] = 0
  BY <1>1, <1>8, Zenon
<1>11. \A g \in Height \ {h} :
         g % snapshotInterval = 0 /\ hs[g] = 0 /\ Least(Listed(hs)) < g
           => Least(Listed(t)) < g
  BY <1>1, <1>6, <1>8, Zenon
<1> QED
  BY <1>6, <1>8, <1>9, <1>10, <1>11, Zenon

------------------------------------------------------------------------------
(* The invariant *)

\* The node is always started with the same snapshot interval.
OneInterval == \A i, j \in Intervals : i = j

Inv == TypeOK /\ PruneInv

\* The first entry of the list is one of its heights.
LEMMA FirstListedIn ==
  ASSUME TypeOK
  PROVE  /\ FirstListed \in Listed(pruneSnapshotHeights)
         /\ FirstListed \in Nat
         /\ \A g \in Listed(pruneSnapshotHeights) : FirstListed <= g
<1>1. Listed(pruneSnapshotHeights) \subseteq Nat
  BY PruningAssumption DEF Listed, Height
<1>2. Listed(pruneSnapshotHeights) # {}
  BY Zenon DEF TypeOK
<1> QED
  BY <1>1, <1>2, LeastElement, Zenon DEF FirstListed

\* A snapshot that needs a version is in flight.
LEMMA NeedsInFlight ==
  ASSUME NEW h \in Height, Needs(h) # {}
  PROVE  InFlight(h)
BY Zenon DEF Needs, InFlight

\* What GetPruningHeight allows is neither recent nor in flight: the snapshots
\* in flight are beyond the first entry, hence an interval beyond it.
LEMMA PruningHeight ==
  ASSUME Inv
  PROVE  /\ GetPruningHeight(version) \in Height
         /\ \/ GetPruningHeight(version) <= version - 1 - KeepRecent
            \/ GetPruningHeight(version) = 0
         /\ \A h \in Height : InFlight(h) => GetPruningHeight(version) < h
<1> DEFINE recent == version - 1 - KeepRecent
           first == FirstListed + snapshotInterval - 1
           p == GetPruningHeight(version)
<1>1. /\ version \in 0 .. MaxHeight
      /\ KeepRecent \in Nat
      /\ MaxHeight \in Nat
      /\ snapshotInterval \in Nat
      /\ Listed(pruneSnapshotHeights) # {}
  BY PruningAssumption, NodeAssumption, Zenon DEF Inv, TypeOK, Height
<1>2. FirstListed \in Nat /\ FirstListed \in Listed(pruneSnapshotHeights)
  BY FirstListedIn, Zenon DEF Inv
<1>3. \/ p = 0
      \/ /\ version > KeepRecent
         /\ snapshotInterval = 0
         /\ p = recent
      \/ /\ version > KeepRecent
         /\ snapshotInterval > 0
         /\ p = IF first < recent THEN first ELSE recent
  BY <1>1 DEF GetPruningHeight, Lower, IsPruningHeight
<1>4. p \in 0 .. MaxHeight
  BY <1>1, <1>2, <1>3
<1>5. p <= recent \/ p = 0
  BY <1>1, <1>2, <1>3
<1>6. ASSUME NEW h \in Height, InFlight(h) PROVE p < h
  <2>1. /\ snapshotInterval > 0
        /\ h % snapshotInterval = 0
        /\ FirstListed < h
    BY <1>6, Zenon DEF Inv, PruneInv, HeightsInv, ShouldTakeSnapshot
  <2>2. FirstListed % snapshotInterval = 0
    BY <1>2, <2>1, Zenon DEF Inv, PruneInv, HeightsInv
  <2>3. h \in Nat
    BY PruningAssumption DEF Height
  <2>4. FirstListed + snapshotInterval <= h
    BY <1>1, <1>2, <2>1, <2>2, <2>3, MultiplesApart, Zenon
  <2> QED
    BY <1>1, <1>2, <1>3, <2>1, <2>3, <2>4
<1> QED
  BY <1>4, <1>5, <1>6, Zenon DEF Height

\* The invariant holds initially.
LEMMA InitInv == Init => Inv
<1> SUFFICES ASSUME Init PROVE Inv
  BY Zenon
<1>1. 0 \in Height /\ MaxHeight \in Nat
  BY PruningAssumption DEF Height
<1>2. Listed(pruneSnapshotHeights) = {0} /\ Listed(savedHeights) = {}
  BY <1>1 DEF Init, InitManager, NewHeights, NoHeights, Listed
<1>3. TypeOK
  BY <1>1, <1>2, NodeAssumption
    DEF Init, InitManager, NewHeights, NoHeights, Idle, NoExport, TypeOK
<1>4. \A h \in Height : ~InFlight(h)
  BY Zenon DEF Init, Idle, InFlight
<1>5. CommitInv
  BY <1>1, <1>4, Zenon DEF Init, CommitInv
<1>6. HeightsInv
  <2>1. snapshotInterval > 0 => 0 % snapshotInterval = 0
    BY NodeAssumption DEF Init, InitManager
  <2> QED
    BY <1>1, <1>2, <1>4, <2>1 DEF Init, InitManager, HeightsInv
<1>7. InFlightKept
  BY <1>4, NeedsInFlight, Zenon DEF InFlightKept
<1>8. KeepsRecent
  BY DEF Init, KeepsRecent
<1> QED
  BY <1>3, <1>5, <1>6, <1>7, <1>8, Zenon DEF Inv, PruneInv

\* The types are kept by every step, given that what Trim leaves is not empty.
LEMMA TypeStep ==
  ASSUME TypeOK, [Next]_vars,
         pruneSnapshotHeights' \in [Height -> Nat],
         Listed(pruneSnapshotHeights)' # {},
         savedHeights' \in [Height -> Nat],
         snapshotInterval' \in Intervals,
         step = "commit" => GetPruningHeight(version) \in Height
  PROVE  TypeOK'
<1> USE DEF TypeOK
<1>0. 0 \in Height /\ \A v \in Height : v < MaxHeight => v + 1 \in Height
  BY PruningAssumption DEF Height
<1>1. CASE BeginCommit
  BY <1>0, <1>1, Zenon DEF BeginCommit, snapVars, managerVars
<1>2. CASE \E s \in Stores : CommitStore(s) \/ DeleteVersionsTo(s) \/ StopPruning(s)
  BY <1>2 DEF CommitStore, DeleteVersionsTo, StopPruning, snapVars, managerVars
<1>3. CASE StartPruning
  BY <1>3, Zenon DEF StartPruning, snapVars, managerVars
<1>4. CASE FlushMetadata
  BY <1>0, <1>4, Zenon DEF FlushMetadata, snapVars, managerVars
<1>5. CASE SnapshotIfApplicable
  BY <1>5, Zenon DEF SnapshotIfApplicable, snapVars, managerVars
<1>6. ASSUME NEW h \in Height, Goroutine(h) PROVE TypeOK'
  <2>1. CASE BeginFails(h) \/ Begin(h)
    BY <2>1, Zenon DEF BeginFails, Begin, commitVars, managerVars
  <2>2. CASE Create(h)
    BY <2>2, Zenon DEF Create, commitVars, managerVars
  <2>3. CASE \E s \in Stores : Export(h, s)
    BY <2>3, Zenon DEF Export, commitVars, managerVars
  <2>4. CASE CreateFails(h)
    BY <2>4, Zenon DEF CreateFails, commitVars, managerVars
  <2>5. CASE Save(h)
    BY <2>5, Zenon DEF Save, commitVars, managerVars
  <2>6. CASE PruneSnapshotHeight(h)
    BY <2>6, Zenon DEF PruneSnapshotHeight, commitVars
  <2>7. CASE PruneFails(h)
    BY <2>7, Zenon DEF PruneFails, commitVars, managerVars
  <2>8. CASE BeginPrune(h)
    BY <2>8, Zenon DEF BeginPrune, commitVars, managerVars
  <2>9. CASE PruneSnapshot(h) \/ EndPrune(h)
    BY <2>9, Zenon DEF PruneSnapshot, EndPrune, commitVars, managerVars
  <2> QED
    BY <1>6, <2>1, <2>2, <2>3, <2>4, <2>5, <2>6, <2>7, <2>8, <2>9, Zenon DEF Goroutine
<1>7. CASE Crash
  BY <1>0, <1>7, NodeAssumption DEF Crash, Idle, NoExport
<1>8. CASE Done \/ UNCHANGED vars
  BY <1>8, Zenon DEF Done, vars, commitVars, snapVars, managerVars
<1> QED
  BY <1>1, <1>2, <1>3, <1>4, <1>5, <1>6, <1>7, <1>8, Zenon DEF Next, CommitNext

\* The deferred PruneSnapshotHeight: what HandledHeights says of the list.
LEMMA HandledInv ==
  ASSUME Inv, NEW h \in Height, PruneSnapshotHeight(h)
  PROVE  /\ snapshotInterval' = snapshotInterval
         /\ pruneSnapshotHeights' \in [Height -> Nat]
         /\ Listed(pruneSnapshotHeights)' # {}
         /\ savedHeights' = pruneSnapshotHeights'
         /\ InFlight(h)
         /\ \A g \in Listed(pruneSnapshotHeights)' :
              g = h \/ g \in Listed(pruneSnapshotHeights)
         /\ FirstListed' >= FirstListed
         /\ \A g \in Height \ {h} :
              /\ pruneSnapshotHeights[g] = 0 => pruneSnapshotHeights'[g] = 0
              /\ InFlight(g) => FirstListed' < g
<1>1. InFlight(h)
  BY Zenon DEF PruneSnapshotHeight, InFlight
<1>2. /\ pruneSnapshotHeights' = Trim([pruneSnapshotHeights EXCEPT ![h] = @ + 1])
      /\ savedHeights' = pruneSnapshotHeights'
      /\ snapshotInterval' = snapshotInterval
  BY Zenon DEF PruneSnapshotHeight, HandleSnapshotHeight
<1>3. \A g \in Height : InFlight(g) =>
        /\ snapshotInterval > 0
        /\ g % snapshotInterval = 0
        /\ pruneSnapshotHeights[g] = 0
        /\ FirstListed < g
  BY Zenon DEF Inv, PruneInv, HeightsInv, ShouldTakeSnapshot
<1>4. /\ snapshotInterval \in Nat
      /\ pruneSnapshotHeights \in [Height -> Nat]
      /\ Listed(pruneSnapshotHeights) # {}
  BY NodeAssumption, Zenon DEF Inv, TypeOK
<1>5. \A g \in Listed(pruneSnapshotHeights) : g % snapshotInterval = 0
  BY <1>1, <1>3, Zenon DEF Inv, PruneInv, HeightsInv
<1>6. PICK hs, b, t : /\ hs = pruneSnapshotHeights
                      /\ b = [pruneSnapshotHeights EXCEPT ![h] = @ + 1]
                      /\ t = pruneSnapshotHeights'
  BY Zenon
<1>7. /\ hs \in [Height -> Nat]
      /\ Listed(hs) # {}
      /\ \A g \in Listed(hs) : g % snapshotInterval = 0
      /\ h % snapshotInterval = 0
      /\ hs[h] = 0
      /\ Least(Listed(hs)) < h
      /\ snapshotInterval > 0
  BY <1>1, <1>3, <1>4, <1>5, <1>6, Zenon DEF FirstListed
<1>8. /\ b \in [Height -> Nat]
      /\ b[h] = 1
      /\ \A g \in Height \ {h} : b[g] = hs[g]
      /\ t = Trim(b)
  BY <1>2, <1>6, <1>7
<1>9. /\ t \in [Height -> Nat]
      /\ Listed(t) # {}
      /\ \A g \in Listed(t) : g = h \/ g \in Listed(hs)
      /\ Least(Listed(t)) >= Least(Listed(hs))
      /\ \A g \in Height \ {h} :
           /\ hs[g] = 0 => t[g] = 0
           /\ g % snapshotInterval = 0 /\ hs[g] = 0 /\ Least(Listed(hs)) < g
                => Least(Listed(t)) < g
  BY <1>4, <1>7, <1>8, HandledHeights
<1>10. Listed(pruneSnapshotHeights)' = Listed(t) /\ Listed(pruneSnapshotHeights) = Listed(hs)
  BY <1>6, Zenon DEF Listed
<1>11. FirstListed = Least(Listed(hs)) /\ FirstListed' = Least(Listed(t))
  BY <1>10, Zenon DEF FirstListed
<1> QED
  BY <1>1, <1>2, <1>3, <1>6, <1>9, <1>10, <1>11, Zenon

\* A step other than PruneSnapshotHeight keeps the list: a restart reads back
\* from disk what was in memory.
LEMMA HeightsKept ==
  ASSUME OneInterval, Inv, [Next]_vars,
         \A h \in Height : ~PruneSnapshotHeight(h)
  PROVE  /\ snapshotInterval' = snapshotInterval
         /\ pruneSnapshotHeights' = pruneSnapshotHeights
         /\ savedHeights' = savedHeights
<1>1. CASE Crash
  <2>1. snapshotInterval' = snapshotInterval
    BY <1>1, Zenon DEF Crash, Reload, OneInterval, Inv, TypeOK
  <2>2. pruneSnapshotHeights' = pruneSnapshotHeights
    BY <1>1, Zenon DEF Crash, Reload, Inv, PruneInv, HeightsInv
  <2> QED
    BY <1>1, <2>1, <2>2, Zenon DEF Crash, Reload
<1>2. CASE CommitNext
  BY <1>2, Zenon DEF CommitNext, BeginCommit, CommitStore, DeleteVersionsTo,
    StopPruning, StartPruning, FlushMetadata, SnapshotIfApplicable, managerVars
<1>3. CASE \E h \in Height : Goroutine(h)
  BY <1>3, Zenon DEF Goroutine, BeginFails, Begin, Create, Export, CreateFails, Save,
    PruneFails, BeginPrune, PruneSnapshot, EndPrune, managerVars
<1>4. CASE Done \/ UNCHANGED vars
  BY <1>4, Zenon DEF Done, vars, managerVars
<1> QED
  BY <1>1, <1>2, <1>3, <1>4, Zenon DEF Next

\* The first entry never moves back.
LEMMA BoundStep ==
  ASSUME OneInterval, Inv, [Next]_vars
  PROVE  FirstListed' >= FirstListed
<1>1. CASE \E h \in Height : PruneSnapshotHeight(h)
  BY <1>1, HandledInv, Zenon
<1>2. CASE \A h \in Height : ~PruneSnapshotHeight(h)
  <2>1. FirstListed' = FirstListed
    BY <1>2, HeightsKept, Zenon DEF FirstListed, Listed
  <2>2. FirstListed \in Nat
    BY FirstListedIn, Zenon DEF Inv
  <2> QED
    BY <2>1, <2>2
<1> QED
  BY <1>1, <1>2, Zenon

\* The types are kept.
LEMMA TypeInv ==
  ASSUME OneInterval, Inv, [Next]_vars
  PROVE  TypeOK'
<1>1. TypeOK
  BY Zenon DEF Inv
<1>2. /\ pruneSnapshotHeights' \in [Height -> Nat]
      /\ Listed(pruneSnapshotHeights)' # {}
      /\ savedHeights' \in [Height -> Nat]
      /\ snapshotInterval' \in Intervals
  <2>1. CASE \E h \in Height : PruneSnapshotHeight(h)
    BY <1>1, <2>1, HandledInv, Zenon DEF TypeOK
  <2>2. CASE \A h \in Height : ~PruneSnapshotHeight(h)
    <3>1. /\ snapshotInterval' = snapshotInterval
          /\ pruneSnapshotHeights' = pruneSnapshotHeights
          /\ savedHeights' = savedHeights
      BY <2>2, HeightsKept, Zenon
    <3>2. Listed(pruneSnapshotHeights)' = Listed(pruneSnapshotHeights)
      BY <3>1, Zenon DEF Listed
    <3> QED
      BY <1>1, <3>1, <3>2, Zenon DEF TypeOK
  <2> QED
    BY <2>1, <2>2, Zenon
<1>3. GetPruningHeight(version) \in Height
  BY PruningHeight, Zenon
<1> QED
  BY <1>1, <1>2, <1>3, TypeStep, Zenon

\* A step of a goroutine that hands over no height: fewer heights are in
\* flight and fewer versions are needed, and the rest is left alone.
LEMMA GoroutineFrame ==
  ASSUME Inv, UNCHANGED <<managerVars, commitVars>>,
         \A h \in Height : InFlight(h)' => InFlight(h),
         \A h \in Height : Needs(h)' \subseteq Needs(h)
  PROVE  PruneInv'
<1>1. /\ UNCHANGED <<snapshotInterval, pruneSnapshotHeights, savedHeights>>
      /\ UNCHANGED <<versions, latestVersion, version, step, pruneTo, left>>
      /\ UNCHANGED FirstListed
      /\ UNCHANGED Listed(pruneSnapshotHeights)
      /\ UNCHANGED Listed(savedHeights)
  BY Zenon DEF managerVars, commitVars, FirstListed, Listed
<1>2. CommitInv'
  BY <1>1, Zenon DEF Inv, PruneInv, CommitInv
<1>3. HeightsInv'
  <2>1. version \in Height
    BY Zenon DEF Inv, TypeOK
  <2> QED
    BY <1>1, <2>1, Zenon DEF Inv, PruneInv, HeightsInv, ShouldTakeSnapshot
<1>4. InFlightKept'
  BY <1>1, Zenon DEF Inv, PruneInv, InFlightKept
<1>5. KeepsRecent'
  BY <1>1, Zenon DEF Inv, PruneInv, KeepsRecent
<1> QED
  BY <1>2, <1>3, <1>4, <1>5, Zenon DEF PruneInv

\* PruneSnapshotHeight keeps PruneInv.
LEMMA HandleStep ==
  ASSUME Inv, NEW h \in Height, PruneSnapshotHeight(h)
  PROVE  PruneInv'
<1>1. /\ UNCHANGED <<versions, latestVersion, version, step, pruneTo, left, toExport>>
      /\ snapshotInterval' = snapshotInterval
  BY HandledInv, Zenon DEF PruneSnapshotHeight, commitVars
<1>2. /\ \A g \in Height \ {h} : snap'[g] = snap[g]
      /\ snap'[h] \in {"handled", "none"}
  BY Zenon DEF PruneSnapshotHeight, Inv, TypeOK
<1>3. \A g \in Height : InFlight(g)' => g # h /\ InFlight(g)
  BY <1>2, Zenon DEF InFlight
<1>4. \A g \in Height : Needs(g)' \subseteq Needs(g)
  BY <1>1, <1>2, Zenon DEF Needs
<1>5. CommitInv'
  BY <1>1, <1>3, Zenon DEF Inv, PruneInv, CommitInv
<1>6. HeightsInv'
  <2>1. ASSUME NEW g \in Height, InFlight(g)'
        PROVE  /\ ShouldTakeSnapshot(g)'
               /\ g <= latestVersion'
               /\ pruneSnapshotHeights'[g] = 0
               /\ FirstListed' < g
    <3>1. g \in Height \ {h} /\ InFlight(g)
      BY <1>3, <2>1, Zenon
    <3>2. ShouldTakeSnapshot(g) /\ g <= latestVersion /\ pruneSnapshotHeights[g] = 0
      BY <3>1, Zenon DEF Inv, PruneInv, HeightsInv
    <3>3. pruneSnapshotHeights'[g] = 0 /\ FirstListed' < g
      BY <3>1, <3>2, HandledInv, Zenon
    <3> QED
      BY <1>1, <3>2, <3>3, Zenon DEF ShouldTakeSnapshot
  <2>2. ASSUME NEW g \in Listed(pruneSnapshotHeights)'
        PROVE  /\ g <= latestVersion'
               /\ snapshotInterval' > 0 => g % snapshotInterval' = 0
    <3>1. g = h \/ g \in Listed(pruneSnapshotHeights)
      BY HandledInv, Zenon
    <3>2. CASE g = h
      <4>1. InFlight(h)
        BY HandledInv, Zenon
      <4> QED
        BY <1>1, <3>2, <4>1, Zenon DEF Inv, PruneInv, HeightsInv, ShouldTakeSnapshot
    <3>3. CASE g \in Listed(pruneSnapshotHeights)
      BY <1>1, <3>3, Zenon DEF Inv, PruneInv, HeightsInv
    <3> QED
      BY <3>1, <3>2, <3>3, Zenon
  <2>3. ASSUME step' = "committed"
        PROVE  ~InFlight(version)' /\ pruneSnapshotHeights'[version'] = 0
    <3>1. version \in Height /\ step = "committed" /\ version' = version
      BY <1>1, <2>3, Zenon DEF Inv, TypeOK
    <3>2. ~InFlight(version) /\ pruneSnapshotHeights[version] = 0
      BY <3>1, Zenon DEF Inv, PruneInv, HeightsInv
    <3>3. InFlight(h)
      BY HandledInv, Zenon
    <3>4. version \in Height \ {h}
      BY <3>1, <3>2, <3>3, Zenon
    <3>5. pruneSnapshotHeights'[version] = 0
      BY <3>2, <3>4, HandledInv, Zenon
    <3>6. ~InFlight(version)'
      BY <1>2, <3>1, <3>2, <3>4, Zenon DEF InFlight
    <3> QED
      BY <3>1, <3>5, <3>6, Zenon
  <2>4. /\ savedHeights' = pruneSnapshotHeights'
        /\ Listed(pruneSnapshotHeights)' # {}
    BY HandledInv, Zenon
  <2>5. Listed(savedHeights)' = Listed(pruneSnapshotHeights)'
    BY <2>4, Zenon DEF Listed
  <2> QED
    BY <2>1, <2>2, <2>3, <2>4, <2>5, Zenon DEF HeightsInv
<1>7. InFlightKept'
  BY <1>1, <1>4, Zenon DEF Inv, PruneInv, InFlightKept
<1>8. KeepsRecent'
  BY <1>1, Zenon DEF Inv, PruneInv, KeepsRecent
<1> QED
  BY <1>5, <1>6, <1>7, <1>8, Zenon DEF PruneInv

\* The steps of a goroutine keep PruneInv.
LEMMA GoroutineStep ==
  ASSUME Inv, NEW h \in Height, Goroutine(h)
  PROVE  PruneInv'
<1>0. /\ snap \in [Height -> {"none", "spawned", "begun", "exporting", "failed",
                              "saved", "handled", "pruning"}]
      /\ toExport \in [Height -> SUBSET Stores]
  BY Zenon DEF Inv, TypeOK
<1> DEFINE Frame == /\ UNCHANGED <<managerVars, commitVars>>
                    /\ \A g \in Height : InFlight(g)' => InFlight(g)
                    /\ \A g \in Height : Needs(g)' \subseteq Needs(g)
<1>1. CASE BeginFails(h) \/ Begin(h)
  <2>1. Frame
    BY <1>0, <1>1, Zenon DEF BeginFails, Begin, InFlight, Needs
  <2> QED
    BY <2>1, GoroutineFrame, Zenon
<1>2. CASE Create(h)
  <2>1. Frame
    BY <1>0, <1>2, Zenon DEF Create, InFlight, Needs
  <2> QED
    BY <2>1, GoroutineFrame, Zenon
<1>3. CASE \E s \in Stores : Export(h, s)
  <2>1. Frame
    BY <1>0, <1>3, Zenon DEF Export, InFlight, Needs
  <2> QED
    BY <2>1, GoroutineFrame, Zenon
<1>4. CASE CreateFails(h)
  <2>1. Frame
    BY <1>0, <1>4, Zenon DEF CreateFails, InFlight, Needs
  <2> QED
    BY <2>1, GoroutineFrame, Zenon
<1>5. CASE Save(h)
  <2>1. Frame
    BY <1>0, <1>5, Zenon DEF Save, InFlight, Needs
  <2> QED
    BY <2>1, GoroutineFrame, Zenon
<1>6. CASE PruneSnapshotHeight(h)
  BY <1>6, HandleStep, Zenon
<1>7. CASE PruneFails(h)
  <2>1. Frame
    BY <1>0, <1>7, Zenon DEF PruneFails, InFlight, Needs
  <2> QED
    BY <2>1, GoroutineFrame, Zenon
<1>8. CASE BeginPrune(h)
  <2>1. Frame
    BY <1>0, <1>8, Zenon DEF BeginPrune, InFlight, Needs
  <2> QED
    BY <2>1, GoroutineFrame, Zenon
<1>9. CASE PruneSnapshot(h) \/ EndPrune(h)
  <2>1. Frame
    BY <1>0, <1>9, Zenon DEF PruneSnapshot, EndPrune, InFlight, Needs
  <2> QED
    BY <2>1, GoroutineFrame, Zenon
<1> QED
  BY <1>1, <1>2, <1>3, <1>4, <1>5, <1>6, <1>7, <1>8, <1>9, Zenon DEF Goroutine

\* A step of Commit before flushMetadata leaves the heights alone.
LEMMA CommitFrame ==
  ASSUME Inv, UNCHANGED <<managerVars, snapVars, latestVersion>>,
         step' \in {"commit", "prune"}
  PROVE  /\ HeightsInv'
         /\ \A h \in Height : InFlight(h)' <=> InFlight(h)
         /\ \A h \in Height : Needs(h)' = Needs(h)
<1>1. /\ UNCHANGED <<snapshotInterval, pruneSnapshotHeights, savedHeights>>
      /\ UNCHANGED <<snap, toExport, latestVersion>>
      /\ UNCHANGED FirstListed
      /\ UNCHANGED Listed(pruneSnapshotHeights)
      /\ UNCHANGED Listed(savedHeights)
  BY Zenon DEF managerVars, snapVars, FirstListed, Listed
<1>2. \A h \in Height : InFlight(h)' <=> InFlight(h)
  BY <1>1, Zenon DEF InFlight
<1>3. \A h \in Height : Needs(h)' = Needs(h)
  BY <1>1, Zenon DEF Needs
<1>4. HeightsInv'
  BY <1>1, <1>2, Zenon DEF Inv, PruneInv, HeightsInv, ShouldTakeSnapshot
<1> QED
  BY <1>2, <1>3, <1>4, Zenon

\* Commit begins: PruneInv is kept.
LEMMA BeginCommitStep ==
  ASSUME Inv, BeginCommit
  PROVE  PruneInv'
<1>1. /\ UNCHANGED <<managerVars, snapVars, latestVersion, versions>>
      /\ step = "idle" /\ step' = "commit"
      /\ version' = version + 1
      /\ left' = Stores
  BY Zenon DEF BeginCommit
<1>2. /\ HeightsInv'
      /\ \A h \in Height : Needs(h)' = Needs(h)
  BY <1>1, CommitFrame, Zenon
<1>3. CommitInv'
  BY <1>1, Zenon DEF Inv, PruneInv, CommitInv
<1>4. InFlightKept' /\ KeepsRecent'
  BY <1>1, <1>2, Zenon DEF Inv, PruneInv, InFlightKept, KeepsRecent
<1> QED
  BY <1>2, <1>3, <1>4, Zenon DEF PruneInv

\* A store gets its version: PruneInv is kept.
LEMMA CommitStoreStep ==
  ASSUME Inv, NEW s \in Stores, CommitStore(s)
  PROVE  PruneInv'
<1>1. /\ UNCHANGED <<managerVars, snapVars, latestVersion, version, step, pruneTo>>
      /\ step = "commit"
      /\ left' = left \ {s}
  BY Zenon DEF CommitStore
<1>2. /\ \A r \in Stores : versions[r] \subseteq versions'[r]
      /\ version \in versions'[s]
  BY Zenon DEF CommitStore, Inv, TypeOK
<1>3. /\ HeightsInv'
      /\ \A h \in Height : Needs(h)' = Needs(h)
  BY <1>1, CommitFrame, Zenon
<1>4. \A h \in Height : Needs(h) \subseteq Stores
  BY Zenon DEF Inv, TypeOK, Needs
<1>5. CommitInv'
  BY <1>1, <1>2, Zenon DEF Inv, PruneInv, CommitInv
<1>6. InFlightKept'
  BY <1>2, <1>3, <1>4, Zenon DEF Inv, PruneInv, InFlightKept
<1>7. KeepsRecent'
  BY <1>1, <1>2, Zenon DEF Inv, PruneInv, KeepsRecent
<1> QED
  BY <1>3, <1>5, <1>6, <1>7, Zenon DEF PruneInv

\* GetPruningHeight decides what to prune: PruneInv is kept.
LEMMA StartPruningStep ==
  ASSUME Inv, StartPruning
  PROVE  PruneInv'
<1>1. /\ UNCHANGED <<managerVars, snapVars, latestVersion, versions, version>>
      /\ step = "commit" /\ step' = "prune"
      /\ left = {}
      /\ pruneTo' = GetPruningHeight(version)
  BY Zenon DEF StartPruning
<1>2. /\ HeightsInv'
      /\ \A h \in Height : InFlight(h)' <=> InFlight(h)
      /\ \A h \in Height : Needs(h)' = Needs(h)
  BY <1>1, CommitFrame, Zenon
<1>3. /\ pruneTo' <= version - 1 - KeepRecent \/ pruneTo' = 0
      /\ \A h \in Height : InFlight(h) => pruneTo' < h
  BY <1>1, PruningHeight, Zenon
<1>4. CommitInv'
  BY <1>1, <1>2, <1>3, Zenon DEF Inv, PruneInv, CommitInv
<1>5. InFlightKept' /\ KeepsRecent'
  BY <1>1, <1>2, Zenon DEF Inv, PruneInv, InFlightKept, KeepsRecent
<1> QED
  BY <1>2, <1>4, <1>5, Zenon DEF PruneInv

\* A store is pruned: what goes is neither recent, nor in flight, nor the
\* version being committed.
LEMMA DeleteStep ==
  ASSUME Inv, NEW s \in Stores, DeleteVersionsTo(s)
  PROVE  PruneInv'
<1>1. /\ UNCHANGED <<managerVars, snapVars, latestVersion, version, step, pruneTo>>
      /\ step = "prune"
  BY Zenon DEF DeleteVersionsTo
<1>2. /\ pruneTo \in Nat /\ version \in Nat /\ latestVersion \in Nat
      /\ KeepRecent \in Nat
      /\ version = latestVersion + 1
      /\ pruneTo <= version - 1 - KeepRecent \/ pruneTo = 0
      /\ \A r \in Stores : version \in versions[r]
      /\ \A h \in Height : InFlight(h) => pruneTo < h
  BY <1>1, PruningAssumption DEF Inv, TypeOK, Height, PruneInv, CommitInv
<1>3. \A r \in Stores : \A h \in Height :
        h \in versions[r] /\ pruneTo < h => h \in versions'[r]
  <2>1. PICK D \in {{}, {pruneTo}, 1 .. pruneTo} :
          versions' = [versions EXCEPT ![s] = @ \ D]
    BY Zenon DEF DeleteVersionsTo
  <2>2. ASSUME NEW h \in Height, pruneTo < h PROVE h \notin D
    <3>1. h \in Nat
      BY PruningAssumption DEF Height
    <3> QED
      BY <1>2, <2>2, <3>1
  <2>3. versions \in [Stores -> SUBSET Height]
    BY Zenon DEF Inv, TypeOK
  <2> QED
    BY <2>1, <2>2, <2>3, Zenon
<1>4. /\ HeightsInv'
      /\ \A h \in Height : InFlight(h)' <=> InFlight(h)
      /\ \A h \in Height : Needs(h)' = Needs(h)
  BY <1>1, CommitFrame, Zenon
<1>5. CommitInv'
  <2>1. version \in Height /\ pruneTo < version
    BY <1>2 DEF Inv, TypeOK
  <2>2. \A r \in Stores : version \in versions'[r]
    BY <1>2, <1>3, <2>1, Zenon
  <2> QED
    BY <1>1, <1>2, <1>4, <2>2, Zenon DEF CommitInv
<1>6. InFlightKept'
  <2> SUFFICES ASSUME NEW h \in Height, NEW r \in Needs(h)
               PROVE  h \in versions'[r]
    BY <1>4, Zenon DEF InFlightKept
  <2>1. InFlight(h) /\ r \in Stores
    BY NeedsInFlight, Zenon DEF Inv, TypeOK, Needs
  <2>2. h \in versions[r]
    BY Zenon DEF Inv, PruneInv, InFlightKept
  <2> QED
    BY <1>2, <1>3, <2>1, <2>2, Zenon
<1>7. KeepsRecent'
  <2> SUFFICES ASSUME NEW h \in 1 .. latestVersion, h > latestVersion - KeepRecent,
                      NEW r \in Stores
               PROVE  h \in versions'[r]
    BY <1>1, Zenon DEF KeepsRecent
  <2>1. h \in versions[r]
    BY Zenon DEF Inv, PruneInv, KeepsRecent
  <2>2. h \in Height
    BY <2>1, Zenon DEF Inv, TypeOK
  <2>3. pruneTo < h
    BY <1>2
  <2> QED
    BY <1>3, <2>1, <2>2, <2>3, Zenon
<1> QED
  BY <1>4, <1>5, <1>6, <1>7, Zenon DEF PruneInv

\* PruneStores gives up: PruneInv is kept.
LEMMA StopPruningStep ==
  ASSUME Inv, NEW s \in Stores, StopPruning(s)
  PROVE  PruneInv'
<1>1. /\ UNCHANGED <<managerVars, snapVars, latestVersion, version, step, pruneTo,
                     versions>>
      /\ step = "prune"
  BY Zenon DEF StopPruning
<1>2. /\ HeightsInv'
      /\ \A h \in Height : InFlight(h)' <=> InFlight(h)
      /\ \A h \in Height : Needs(h)' = Needs(h)
  BY <1>1, CommitFrame, Zenon
<1>3. CommitInv'
  BY <1>1, <1>2, Zenon DEF Inv, PruneInv, CommitInv
<1>4. InFlightKept' /\ KeepsRecent'
  BY <1>1, <1>2, Zenon DEF Inv, PruneInv, InFlightKept, KeepsRecent
<1> QED
  BY <1>2, <1>3, <1>4, Zenon DEF PruneInv

\* flushMetadata: the version is new, so it is not in the list or in flight.
LEMMA FlushStep ==
  ASSUME Inv, FlushMetadata
  PROVE  PruneInv'
<1>1. /\ UNCHANGED <<snapshotInterval, pruneSnapshotHeights, savedHeights>>
      /\ UNCHANGED <<snap, toExport, versions, version, left>>
      /\ step = "prune" /\ step' = "committed"
      /\ left = {}
      /\ latestVersion' = version
  BY Zenon DEF FlushMetadata, managerVars, snapVars
<1>2. /\ version \in Nat /\ latestVersion \in Nat /\ KeepRecent \in Nat
      /\ version \in Height
      /\ Height \subseteq Nat
      /\ version = latestVersion + 1
      /\ \A s \in Stores : version \in versions[s]
  BY <1>1, PruningAssumption DEF Inv, TypeOK, Height, PruneInv, CommitInv
<1>3. /\ \A h \in Height : InFlight(h)' <=> InFlight(h)
      /\ \A h \in Height : Needs(h)' = Needs(h)
      /\ UNCHANGED FirstListed
      /\ UNCHANGED Listed(pruneSnapshotHeights)
      /\ UNCHANGED Listed(savedHeights)
  BY <1>1, Zenon DEF InFlight, Needs, FirstListed, Listed
<1>4. CommitInv'
  BY <1>1, Zenon DEF CommitInv
<1>5. HeightsInv'
  <2>1. \A h \in Height : InFlight(h) => h <= latestVersion
    BY Zenon DEF Inv, PruneInv, HeightsInv
  <2>2. \A h \in Listed(pruneSnapshotHeights) : h <= latestVersion
    BY Zenon DEF Inv, PruneInv, HeightsInv
  <2>3. ~InFlight(version)
    BY <1>2, <2>1
  <2>4. version \notin Listed(pruneSnapshotHeights)
    BY <1>2, <2>2
  <2>5. pruneSnapshotHeights[version] = 0
    BY <1>2, <2>4 DEF Listed, Inv, TypeOK
  <2>6. \A h \in Height : h <= latestVersion => h <= version
    BY <1>2
  <2>7. ASSUME NEW h \in Height, InFlight(h)
        PROVE  /\ ShouldTakeSnapshot(h)'
               /\ h <= latestVersion'
               /\ pruneSnapshotHeights'[h] = 0
               /\ FirstListed' < h
    BY <1>1, <1>3, <2>6, <2>7, Zenon DEF Inv, PruneInv, HeightsInv, ShouldTakeSnapshot
  <2>8. ASSUME NEW h \in Listed(pruneSnapshotHeights)
        PROVE  /\ h <= latestVersion'
               /\ snapshotInterval' > 0 => h % snapshotInterval' = 0
    <3>1. h \in Height
      BY Zenon DEF Listed
    <3> QED
      BY <1>1, <2>6, <3>1, Zenon DEF Inv, PruneInv, HeightsInv
  <2>9. /\ ~InFlight(version)'
        /\ pruneSnapshotHeights'[version'] = 0
    BY <1>1, <1>2, <1>3, <2>3, <2>5, Zenon DEF InFlight
  <2>10. IF Listed(savedHeights)' = {} THEN pruneSnapshotHeights' = NewHeights
         ELSE savedHeights' = pruneSnapshotHeights'
    BY <1>1, <1>3, Zenon DEF Inv, PruneInv, HeightsInv
  <2> QED
    BY <1>3, <2>7, <2>8, <2>9, <2>10, Zenon DEF HeightsInv
<1>6. InFlightKept'
  BY <1>1, <1>3, Zenon DEF Inv, PruneInv, InFlightKept
<1>7. KeepsRecent'
  <2> SUFFICES ASSUME NEW h \in 1 .. version, h > version - KeepRecent,
                      NEW s \in Stores
               PROVE  h \in versions[s]
    BY <1>1, Zenon DEF KeepsRecent
  <2>1. CASE h = version
    BY <1>2, <2>1, Zenon
  <2>2. CASE h # version
    <3>1. h \in 1 .. latestVersion /\ h > latestVersion - KeepRecent
      BY <1>2, <2>2
    <3> QED
      BY <3>1, Zenon DEF Inv, PruneInv, KeepsRecent
  <2> QED
    BY <2>1, <2>2, Zenon
<1> QED
  BY <1>4, <1>5, <1>6, <1>7, Zenon DEF PruneInv

\* A snapshot is asked for: its height is a new multiple of the interval,
\* beyond the first entry, and every store has it.
LEMMA SnapshotStep ==
  ASSUME Inv, SnapshotIfApplicable
  PROVE  PruneInv'
<1>1. /\ UNCHANGED <<snapshotInterval, pruneSnapshotHeights, savedHeights>>
      /\ UNCHANGED <<versions, latestVersion, version, pruneTo, left, toExport>>
      /\ step = "committed" /\ step' = "idle"
      /\ snap' = IF ShouldTakeSnapshot(version)
                 THEN [snap EXCEPT ![version] = "spawned"] ELSE snap
  BY Zenon DEF SnapshotIfApplicable, managerVars
<1>2. /\ version \in Height /\ version \in Nat /\ latestVersion = version
      /\ KeepRecent \in Nat /\ KeepRecent > 0
      /\ left = {}
      /\ pruneSnapshotHeights[version] = 0
  BY <1>1, PruningAssumption DEF Inv, TypeOK, Height, PruneInv, CommitInv, HeightsInv
<1>3. /\ UNCHANGED FirstListed
      /\ UNCHANGED Listed(pruneSnapshotHeights)
      /\ UNCHANGED Listed(savedHeights)
  BY <1>1, Zenon DEF FirstListed, Listed
<1>4. /\ \A h \in Height : InFlight(h)' =>
           InFlight(h) \/ (h = version /\ ShouldTakeSnapshot(version))
      /\ \A h \in Height : h # version => Needs(h)' = Needs(h)
      /\ ~ShouldTakeSnapshot(version) => Needs(version)' = Needs(version)
      /\ ShouldTakeSnapshot(version) => Needs(version)' = Stores
  BY <1>1, <1>2, Zenon DEF InFlight, Needs, Inv, TypeOK
<1>5. FirstListed < version
  <2>1. FirstListed \in Listed(pruneSnapshotHeights) /\ FirstListed \in Nat
    BY FirstListedIn, Zenon DEF Inv
  <2>2. FirstListed <= version
    BY <1>2, <2>1, Zenon DEF Inv, PruneInv, HeightsInv
  <2>3. FirstListed # version
    BY <1>2, <2>1 DEF Listed
  <2> QED
    BY <1>2, <2>1, <2>2, <2>3
<1>6. CommitInv'
  BY <1>1, <1>2, Zenon DEF CommitInv
<1>7. HeightsInv'
  <2>1. ASSUME NEW h \in Height, InFlight(h)'
        PROVE  /\ ShouldTakeSnapshot(h)'
               /\ h <= latestVersion'
               /\ pruneSnapshotHeights'[h] = 0
               /\ FirstListed' < h
    <3>1. CASE InFlight(h)
      BY <1>1, <1>3, <3>1, Zenon DEF Inv, PruneInv, HeightsInv, ShouldTakeSnapshot
    <3>2. CASE h = version /\ ShouldTakeSnapshot(version)
      BY <1>1, <1>2, <1>3, <1>5, <3>2 DEF ShouldTakeSnapshot
    <3> QED
      BY <1>4, <2>1, <3>1, <3>2, Zenon
  <2>2. ASSUME NEW h \in Listed(pruneSnapshotHeights)
        PROVE  /\ h <= latestVersion'
               /\ snapshotInterval' > 0 => h % snapshotInterval' = 0
    BY <1>1, Zenon DEF Inv, PruneInv, HeightsInv
  <2>3. IF Listed(savedHeights)' = {} THEN pruneSnapshotHeights' = NewHeights
        ELSE savedHeights' = pruneSnapshotHeights'
    BY <1>1, <1>3, Zenon DEF Inv, PruneInv, HeightsInv
  <2> QED
    BY <1>1, <1>3, <2>1, <2>2, <2>3, Zenon DEF HeightsInv
<1>8. InFlightKept'
  <2> SUFFICES ASSUME NEW h \in Height, NEW s \in Needs(h)' PROVE h \in versions'[s]
    BY Zenon DEF InFlightKept
  <2>1. CASE h = version /\ ShouldTakeSnapshot(version)
    <3>1. s \in Stores
      BY <1>1, <2>1, Zenon DEF Needs, Inv, TypeOK
    <3>2. version \in 1 .. latestVersion /\ version > latestVersion - KeepRecent
      <4>1. FirstListed \in Nat
        BY FirstListedIn, Zenon DEF Inv
      <4> QED
        BY <1>2, <1>5, <4>1
    <3> QED
      <4>1. version \in versions[s]
        BY <3>1, <3>2, Zenon DEF Inv, PruneInv, KeepsRecent
      <4> QED
        BY <1>1, <2>1, <4>1, Zenon
  <2>2. CASE ~(h = version /\ ShouldTakeSnapshot(version))
    BY <1>1, <1>4, <2>2, Zenon DEF Inv, PruneInv, InFlightKept
  <2> QED
    BY <2>1, <2>2, Zenon
<1>9. KeepsRecent'
  BY <1>1, Zenon DEF Inv, PruneInv, KeepsRecent
<1> QED
  BY <1>6, <1>7, <1>8, <1>9, Zenon DEF PruneInv

\* A crash and the restart: nothing is in flight, and the list is read back.
LEMMA CrashStep ==
  ASSUME OneInterval, Inv, Crash
  PROVE  PruneInv'
<1>1. /\ UNCHANGED <<versions, latestVersion>>
      /\ version' = latestVersion /\ step' = "idle" /\ left' = {} /\ snap' = Idle
  BY Zenon DEF Crash
<1>2. UNCHANGED <<snapshotInterval, pruneSnapshotHeights, savedHeights>>
  <2>1. \A h \in Height : ~PruneSnapshotHeight(h)
    <3>1. crashes' # crashes
      BY DEF Crash, Inv, TypeOK
    <3> QED
      BY <3>1, Zenon DEF PruneSnapshotHeight
  <2> QED
    BY <2>1, HeightsKept, Zenon DEF Next
<1>3. /\ UNCHANGED Listed(pruneSnapshotHeights)
      /\ UNCHANGED Listed(savedHeights)
  BY <1>2, Zenon DEF Listed
<1>4. \A h \in Height : ~InFlight(h)' /\ Needs(h)' = {}
  BY <1>1, Zenon DEF Idle, InFlight, Needs
<1>5. CommitInv'
  BY <1>1, Zenon DEF CommitInv
<1>6. HeightsInv'
  BY <1>1, <1>2, <1>3, <1>4, Zenon DEF Inv, PruneInv, HeightsInv
<1>7. InFlightKept'
  BY <1>4, Zenon DEF InFlightKept
<1>8. KeepsRecent'
  BY <1>1, Zenon DEF Inv, PruneInv, KeepsRecent
<1> QED
  BY <1>5, <1>6, <1>7, <1>8, Zenon DEF PruneInv

\* A step that changes nothing keeps PruneInv.
LEMMA StutterStep ==
  ASSUME Inv, UNCHANGED vars
  PROVE  PruneInv'
<1>1. UNCHANGED <<managerVars, commitVars>> /\ UNCHANGED <<snap, toExport>>
  BY Zenon DEF vars, snapVars
<1>2. \A h \in Height : (InFlight(h)' => InFlight(h)) /\ Needs(h)' \subseteq Needs(h)
  BY <1>1, Zenon DEF InFlight, Needs
<1> QED
  BY <1>1, <1>2, GoroutineFrame, Zenon

\* Inv is inductive for a node that keeps its snapshot interval.
LEMMA InvStep ==
  ASSUME OneInterval, Inv, [Next]_vars
  PROVE  Inv'
<1> SUFFICES PruneInv'
  BY TypeInv, Zenon DEF Inv
<1>1. CASE BeginCommit
  BY <1>1, BeginCommitStep, Zenon
<1>2. ASSUME NEW s \in Stores, CommitStore(s) \/ DeleteVersionsTo(s) \/ StopPruning(s)
      PROVE  PruneInv'
  BY <1>2, CommitStoreStep, DeleteStep, StopPruningStep, Zenon
<1>3. CASE StartPruning
  BY <1>3, StartPruningStep, Zenon
<1>4. CASE FlushMetadata
  BY <1>4, FlushStep, Zenon
<1>5. CASE SnapshotIfApplicable
  BY <1>5, SnapshotStep, Zenon
<1>6. ASSUME NEW h \in Height, Goroutine(h) PROVE PruneInv'
  BY <1>6, GoroutineStep, Zenon
<1>7. CASE Crash
  BY <1>7, CrashStep, Zenon
<1>8. CASE Done \/ UNCHANGED vars
  BY <1>8, StutterStep, Zenon DEF Done
<1> QED
  BY <1>1, <1>2, <1>3, <1>4, <1>5, <1>6, <1>7, <1>8, Zenon DEF Next, CommitNext

------------------------------------------------------------------------------
(* Theorems *)

\* The types hold, and with them that the list of heights is never empty, for
\* which GetPruningHeight would prune nothing any more.
THEOREM PruningTypeCorrect ==
  ASSUME OneInterval
  PROVE  Spec => []TypeOK
<1>1. Inv /\ [Next]_vars => Inv'
  BY InvStep, Zenon
<1> QED
  BY InitInv, <1>1, PTL DEF Spec, Inv

\* PruneInv is an invariant of a node that keeps its snapshot interval.
THEOREM PruneInvariant ==
  ASSUME OneInterval
  PROVE  Spec => []PruneInv
<1>1. Inv /\ [Next]_vars => Inv'
  BY InvStep, Zenon
<1> QED
  BY InitInv, <1>1, PTL DEF Spec, Inv

\* No Commit prunes a version that a snapshot under way has still to export,
\* whatever the interleaving of Commit, the goroutines and crashes.
THEOREM InFlightIsKept ==
  ASSUME OneInterval
  PROVE  Spec => []InFlightKept
<1>1. PruneInv => InFlightKept
  BY Zenon DEF PruneInv
<1> QED
  BY PruneInvariant, <1>1, PTL

\* The last KeepRecent versions that the metadata on disk speaks of are in
\* every store, so a node that crashes at any point can load its latest one.
THEOREM RecentAreKept ==
  ASSUME OneInterval
  PROVE  Spec => []KeepsRecent
<1>1. PruneInv => KeepsRecent
  BY Zenon DEF PruneInv
<1> QED
  BY PruneInvariant, <1>1, PTL

\* The first entry of the list never moves back, in a restart neither.
THEOREM FirstEntryGrows ==
  ASSUME OneInterval
  PROVE  Spec => BoundGrows
<1>1. Inv /\ [Next]_vars => Inv'
  BY InvStep, Zenon
<1>2. Inv /\ [Next]_vars => [FirstListed' >= FirstListed]_vars
  BY BoundStep, Zenon
<1> QED
  BY InitInv, <1>1, <1>2, PTL DEF Spec, BoundGrows
==============================================================================
