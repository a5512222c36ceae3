----------------------------- MODULE SerialBlock -----------------------------
(***************************************************************************)
(* What parallel execution of a block promises: the transactions take      *)
(* effect one after the other, in the order of their indices, and the      *)
(* parent store gets the result at the end of the block.                   *)
(***************************************************************************)
EXTENDS Integers, Sequences

CONSTANTS
  Keys, Values, Nil,
  N            \* the transactions are 0 .. N-1

VARIABLES
  program,     \* index -> the transaction, a sequence of instructions
  settled,     \* the transactions below it have taken effect
  store,       \* what they have left, key -> value or Nil
  parent       \* the store below the block

vars == <<program, settled, store, parent>>

\* An instruction works on a register acc: "get" loads it from a key, "set"
\* writes a function of it, "delete" deletes, each only if acc is in when.
\* "iterate" loads the value of the last key it visits of a range, stopping
\* early after stop of them; "deleteAll" deletes a range.  A range is the
\* sequence of its keys in the direction of the iteration.
Instructions ==
  [op : {"get", "set", "delete"}, key : Keys, when : SUBSET (Values \cup {Nil}),
   val : [Values \cup {Nil} -> Values]]
  \cup
  [op : {"iterate", "deleteAll"}, keys : Seq(Keys), stop : Nat \ {0},
   when : SUBSET (Values \cup {Nil})]

Visited(s, ins) ==
  LET there == SelectSeq(ins.keys, LAMBDA k : s[k] # Nil)
  IN  SubSeq(there, 1, IF ins.stop < Len(there) THEN ins.stop ELSE Len(there))

Execute(state, ins) ==
  IF state.acc \notin ins.when THEN state
  ELSE CASE ins.op = "get" -> [state EXCEPT !.acc = state.store[ins.key]]
         [] ins.op = "set" -> [state EXCEPT !.store[ins.key] = ins.val[state.acc]]
         [] ins.op = "delete" -> [state EXCEPT !.store[ins.key] = Nil]
         [] ins.op = "iterate" ->
              LET seen == Visited(state.store, ins)
              IN  [state EXCEPT !.acc = IF seen = <<>> THEN Nil ELSE state.store[seen[Len(seen)]]]
         [] ins.op = "deleteAll" ->
              [state EXCEPT !.store =
                 [k \in Keys |-> IF \E n \in DOMAIN ins.keys : ins.keys[n] = k THEN Nil ELSE @[k]]]

\* One transaction from store s: the state after each of its instructions, and
\* the store after the last.
Run(s, prog) ==
  LET run[n \in 0 .. Len(prog)] ==
        IF n = 0 THEN [store |-> s, acc |-> Nil] ELSE Execute(run[n - 1], prog[n])
  IN  run

After(s, prog) == Run(s, prog)[Len(prog)].store

\* The store after transactions from .. to-1.
RunSerially(s, from, to) ==
  LET upto[n \in from .. to] == IF n = from THEN s ELSE After(upto[n - 1], program[n - 1])
  IN  upto[to]

Init ==
  /\ program \in [0 .. (N - 1) -> Seq(Instructions)]
  /\ store \in [Keys -> Values \cup {Nil}]
  /\ parent = store
  /\ settled = 0

\* The next transactions take effect.
Settle ==
  /\ settled' \in (settled + 1) .. N
  /\ store' = RunSerially(store, settled, settled')
  /\ UNCHANGED <<program, parent>>

Commit ==
  /\ settled = N
  /\ parent' = store
  /\ UNCHANGED <<program, settled, store>>

Next == Settle \/ Commit

Spec == Init /\ [][Next]_vars
==============================================================================
