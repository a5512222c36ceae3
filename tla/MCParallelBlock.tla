--------------------------- MODULE MCParallelBlock ---------------------------
(* Blocks of three transactions over two keys.                             *)
EXTENDS ParallelBlock, TLC

CONSTANTS a, b

MCKeys == {a, b}
MCValues == 1 .. 3
Some == MCValues
Always == MCValues \cup {Nil}

Const(v) == [x \in Always |-> v]
Same == [x \in Always |-> IF x = Nil THEN 1 ELSE x]
Inc == [x \in Always |-> IF x = Nil THEN 1 ELSE IF x = 3 THEN 3 ELSE x + 1]

Fetch(k) == [op |-> "get", key |-> k, when |-> Always, val |-> Same]
Save(k, when, f) == [op |-> "set", key |-> k, when |-> when, val |-> f]
Del(k, when) == [op |-> "delete", key |-> k, when |-> when, val |-> Same]

\* Read a key and write it back; copy a key, only if it is there; move one;
\* delete one without reading; write one, then read and write another.
Incr(k) == <<Fetch(k), Save(k, Always, Inc)>>
CopyIf(k, l) == <<Fetch(k), Save(l, Some, Same)>>
Move(k, l) == <<Fetch(k), Save(l, Always, Same), Del(k, Always)>>
Drop == <<Del(a, Always)>>
Touch(k, l) == <<Save(k, Always, Const(3)), Fetch(l), Save(l, Always, Inc)>>

\* Every block of three of these in which neighbours differ, but for a blind
\* write at its end, which no other transaction can make invalid.
Pool == {Touch(b, a), CopyIf(a, b), Move(b, a), Drop}
MCBlocks == {B \in [0 .. 2 -> Pool] : B[0] # B[1] /\ B[1] # B[2] /\ B[2] # Drop}

\* A few of them, for the properties that cost more.
FewBlocks == {[i \in 0 .. 2 |-> B[i + 1]] :
                B \in {<<Drop, CopyIf(a, b), Move(b, a)>>,
                       <<Incr(a), Incr(a), Incr(a)>>}}

MCParents == {[k \in MCKeys |-> IF k = a THEN 1 ELSE Nil]}
==============================================================================
