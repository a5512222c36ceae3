--------------------------- MODULE MCIteratedBlock ---------------------------
(* Blocks of three transactions over two keys, most of which iterate.      *)
EXTENDS IteratedBlock, TLC

CONSTANTS a, b

MCKeys == {a, b}
MCValues == 1 .. 3
Some == MCValues
Always == MCValues \cup {Nil}

Same == [x \in Always |-> IF x = Nil THEN 1 ELSE x]
Two == [x \in Always |-> 2]
Inc == [x \in Always |-> IF x = Nil THEN 1 ELSE IF x = 3 THEN 3 ELSE x + 1]

Fetch(k) == [op |-> "get", key |-> k, when |-> Always, val |-> Same]
Save(k, when, f) == [op |-> "set", key |-> k, when |-> when, val |-> f]
Del(k, when) == [op |-> "delete", key |-> k, when |-> when, val |-> Same]
Walk(ks, n) == [op |-> "iterate", keys |-> ks, stop |-> n, when |-> Always]
Clear(ks) == [op |-> "deleteAll", keys |-> ks, stop |-> 3, when |-> Always]

\* Writers: insert a key, delete one, move one, write one if the other is there.
Insert(k) == <<Save(k, Always, Two)>>
Drop(k) == <<Del(k, Always)>>
MoveIf(k, l) == <<Fetch(k), Save(l, Some, Same), Del(k, Some)>>

\* Without iterators: read a key and write it back, copy one, move one.
Incr(k) == <<Fetch(k), Save(k, Always, Inc)>>
CopyIf(k, l) == <<Fetch(k), Save(l, Some, Same)>>
Move(k, l) == <<Fetch(k), Save(l, Always, Same), Del(k, Always)>>

\* Readers: the first of a range, in both directions; a whole range, after a
\* write, with the result written back; the deletion of a range.
First(ks, k) == <<Walk(ks, 1), Save(k, Some, Same)>>
Whole(ks, k) == <<Save(k, Always, Two), Walk(ks, 3), Save(k, Always, Same)>>
DeleteRange == <<Clear(<<a, b>>)>>
Reread == <<Fetch(b), Walk(<<a, b>>, 3), Save(a, Always, Same)>>

Block(x, y, z) == [i \in 0 .. 2 |-> IF i = 0 THEN x ELSE IF i = 1 THEN y ELSE z]

MCBlocks == {Block(Drop(a), MoveIf(a, b), r) :
               r \in {First(<<a, b>>, b), First(<<b, a>>, a), Whole(<<a, b>>, b), DeleteRange, Reread}}
            \cup {Block(Insert(b), DeleteRange, First(<<a, b>>, b)),
                  Block(Drop(a), Reread, DeleteRange),
                  Block(Incr(a), Incr(a), Incr(a)),
                  Block(Drop(a), CopyIf(a, b), Move(b, a))}

MCParents == {[k \in MCKeys |-> IF k = a THEN 1 ELSE Nil]}
==============================================================================
