-------------------------- MODULE MCSnapshotPruning --------------------------
(* Two stores; snapshots every second height, or every second or third.    *)
EXTENDS SnapshotPruning, TLC

CONSTANTS s1, s2

MCStores == {s1, s2}
Symmetry == Permutations(MCStores)
EverySecond == {2}
SecondOrThird == {2, 3}
==============================================================================
