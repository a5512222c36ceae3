---------------------------- MODULE BranchedStore ----------------------------
(***************************************************************************)
(* What branching a store promises: every branch is a map of its own, a    *)
(* copy of the one it was made from; Write copies it back; an iterator     *)
(* gives the pairs that its store held when it was opened.                 *)
(***************************************************************************)
EXTENDS KeyRange

CONSTANTS
  Values,
  Depth,   \* the number of branches there can be, one on another
  Ranges   \* [start, end], each a key or None for nil

VARIABLES
  base,    \* key -> value or Nil
  stack,   \* the branches, a sequence of maps
  rest     \* what the open iterator has still to give, or None

vars == <<base, stack, rest>>

Top == IF stack = <<>> THEN base ELSE stack[Len(stack)]

Init ==
  /\ base \in [Keys -> Values \cup {Nil}]
  /\ stack = <<>>
  /\ rest = None

Branch == stack' = Append(stack, Top) /\ UNCHANGED <<base, rest>>

Discard == stack # <<>> /\ stack' = SubSeq(stack, 1, Len(stack) - 1) /\ UNCHANGED <<base, rest>>

Change(new) == stack # <<>> /\ stack' = [stack EXCEPT ![Len(stack)] = new] /\ UNCHANGED <<base, rest>>

Set(k, v) == Change([Top EXCEPT ![k] = v])

DeleteAll(r) == Change([k \in Keys |-> IF IsKeyInDomain(k, r) THEN Nil ELSE Top[k]])

Write ==
  /\ stack # <<>>
  /\ IF Len(stack) = 1 THEN base' = Top /\ UNCHANGED stack
     ELSE stack' = [stack EXCEPT ![Len(stack) - 1] = Top] /\ UNCHANGED base
  /\ UNCHANGED rest

Open(r, ascending) ==
  /\ rest = None /\ stack # <<>>
  /\ rest' = Contents(Top, r, ascending)
  /\ UNCHANGED <<base, stack>>

Step == rest # None /\ rest # <<>> /\ rest' = Tail(rest) /\ UNCHANGED <<base, stack>>

Close == rest # None /\ rest' = None /\ UNCHANGED <<base, stack>>

Next ==
  \/ Branch \/ Discard \/ Write \/ Step \/ Close
  \/ \E k \in Keys, v \in Values \cup {Nil} : Set(k, v)
  \/ \E r \in Ranges : DeleteAll(r)
  \/ \E r \in Ranges, ascending \in BOOLEAN : Open(r, ascending)

Spec == Init /\ [][Next]_vars
==============================================================================
