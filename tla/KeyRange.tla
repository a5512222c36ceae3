------------------------------ MODULE KeyRange -------------------------------
(* Ranges of keys and the pairs a store holds in them.                     *)
EXTENDS Integers, Sequences, FiniteSets

CONSTANTS
  Keys,   \* integers; their order is that of the byte strings
  Nil,    \* no value
  None    \* nil, as an end of a range

IsKeyInDomain(k, r) == (r.start # None => k >= r.start) /\ (r.end # None => k < r.end)

\* The keys of a set in the direction of an iterator.
Ordered(S, ascending) ==
  [n \in 1 .. Cardinality(S) |->
     CHOOSE k \in S : n = Cardinality({j \in S : IF ascending THEN j <= k ELSE j >= k})]

Pairs(map, S, ascending) ==
  LET ks == Ordered(S, ascending) IN [n \in DOMAIN ks |-> [key |-> ks[n], value |-> map[ks[n]]]]

Contents(map, r, ascending) ==
  Pairs(map, {k \in Keys : IsKeyInDomain(k, r) /\ map[k] # Nil}, ascending)
==============================================================================
