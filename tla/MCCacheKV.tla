------------------------------ MODULE MCCacheKV ------------------------------
(* Two branches over a base store with one of two keys.                    *)
EXTENDS CacheKV, TLC

CONSTANTS v1

Between(s, e) == [start |-> s, end |-> e]

\* All keys, those before a key of the store, and the wrong way round.
MCRanges == {Between(1, 3), Between(None, 2), Between(3, 1)}

MCBase == {[k \in Keys |-> IF k = 2 THEN v1 ELSE Nil]}
==============================================================================
