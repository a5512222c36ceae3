------------------------- MODULE ParallelBlockProofs -------------------------
(***************************************************************************)
(* Parallel execution of a block is serial: proofs for every number of     *)
(* transactions, every set of keys and values and every program.           *)
(***************************************************************************)
EXTENDS ParallelBlock, MultiVersionStoreProofs

------------------------------------------------------------------------------
(* The serial execution of a program *)

\* The state after n instructions, from that after n - 1 of them.
LEMMA RunUnfold ==
  ASSUME NEW s, NEW p, Len(p) \in Nat
  PROVE  /\ Serial!Run(s, p)[0] = [store |-> s, acc |-> Nil]
         /\ \A n \in 1 .. Len(p) :
              Serial!Run(s, p)[n] = Serial!Execute(Serial!Run(s, p)[n - 1], p[n])
<1> DEFINE base == [store |-> s, acc |-> Nil]
           Runs(g, n) == g = [m \in 0 .. n |->
                                IF m = 0 THEN base ELSE Serial!Execute(g[m - 1], p[m])]
           Without == {n \in Nat : ~\E g : Runs(g, n)}
<1> HIDE DEF base
<1>1. Without = {}
  <2> SUFFICES ASSUME Without # {} PROVE FALSE
    OBVIOUS
  <2>1. PICK n \in Without : \A m \in Without : n <= m
    BY LeastNatural, Zenon
  <2>2. n # 0
    <3>1. Runs([m \in 0 .. 0 |-> base], 0)
      OBVIOUS
    <3> QED
      BY <3>1, Zenon
  <2>3. PICK g : Runs(g, n - 1)
    <3>1. n - 1 \in Nat /\ ~(n <= n - 1)
      BY <2>1, <2>2
    <3>2. n - 1 \notin Without
      BY <2>1, <3>1, Zenon
    <3> QED
      BY <3>1, <3>2, Zenon
  <2> DEFINE h == [m \in 0 .. n |-> IF m = n THEN Serial!Execute(g[n - 1], p[n]) ELSE g[m]]
  <2>4. Runs(h, n)
    <3>1. ASSUME NEW m \in 0 .. n
          PROVE  h[m] = IF m = 0 THEN base ELSE Serial!Execute(h[m - 1], p[m])
      <4>1. CASE m = n
        BY <2>2, <4>1
      <4>2. CASE m # n
        BY <2>3, <4>2
      <4> QED
        BY <4>1, <4>2, Zenon
    <3> HIDE DEF h
    <3>2. h = [m \in 0 .. n |-> h[m]]
      BY Zenon DEF h
    <3> QED
      BY <3>1, <3>2, Zenon
  <2> QED
    BY <2>1, <2>4, Zenon
<1>2. \E g : Runs(g, Len(p))
  BY <1>1, Zenon
<1>3. Runs(Serial!Run(s, p), Len(p))
  BY <1>2, Zenon DEF Serial!Run, base
<1> QED
  BY <1>3 DEF base

\* What one instruction does to the store and the register.
LEMMA Executed ==
  ASSUME NEW S, NEW a, NEW ins
  PROVE  /\ a \notin ins.when =>
              Serial!Execute([store |-> S, acc |-> a], ins) = [store |-> S, acc |-> a]
         /\ a \in ins.when /\ ins.op = "get" =>
              Serial!Execute([store |-> S, acc |-> a], ins) = [store |-> S, acc |-> S[ins.key]]
         /\ a \in ins.when /\ ins.op = "set" =>
              Serial!Execute([store |-> S, acc |-> a], ins) =
                [store |-> [S EXCEPT ![ins.key] = ins.val[a]], acc |-> a]
         /\ a \in ins.when /\ ins.op = "delete" =>
              Serial!Execute([store |-> S, acc |-> a], ins) =
                [store |-> [S EXCEPT ![ins.key] = Nil], acc |-> a]
<1> DEFINE state == [store |-> S, acc |-> a]
<1>1. a \notin ins.when => Serial!Execute(state, ins) = state
  BY Zenon DEF Serial!Execute
<1>2. a \in ins.when /\ ins.op = "get" =>
        Serial!Execute(state, ins) = [store |-> S, acc |-> S[ins.key]]
  BY Zenon DEF Serial!Execute
<1>3. a \in ins.when /\ ins.op = "set" =>
        Serial!Execute(state, ins) = [store |-> [S EXCEPT ![ins.key] = ins.val[a]], acc |-> a]
  BY Zenon DEF Serial!Execute
<1>4. a \in ins.when /\ ins.op = "delete" =>
        Serial!Execute(state, ins) = [store |-> [S EXCEPT ![ins.key] = Nil], acc |-> a]
  BY Zenon DEF Serial!Execute
<1> QED
  BY <1>1, <1>2, <1>3, <1>4, Zenon

\* Stores that each come from the one before by the next transaction are those
\* of the serial execution.
LEMMA SerialChain ==
  ASSUME NEW from \in Nat, NEW to \in Nat, from <= to, NEW V,
         \A i \in from .. (to - 1) : V[i + 1] = Serial!After(V[i], program[i])
  PROVE  Serial!RunSerially(V[from], from, to) = V[to]
<1> DEFINE Upto(g) == g = [n \in from .. to |->
                             IF n = from THEN V[from] ELSE Serial!After(g[n - 1], program[n - 1])]
           upto == CHOOSE g : Upto(g)
           W == [n \in from .. to |-> V[n]]
<1>1. Upto(W)
  <2>1. ASSUME NEW n \in from .. to, n # from
        PROVE  V[n] = Serial!After(W[n - 1], program[n - 1])
    <3>1. n - 1 \in from .. (to - 1) /\ (n - 1) + 1 = n /\ n - 1 \in from .. to
      BY <2>1
    <3>2. W[n - 1] = V[n - 1]
      BY <3>1, Zenon
    <3> HIDE DEF W
    <3> QED
      BY <3>1, <3>2, Zenon
  <2> QED
    BY <2>1, Zenon
<1>2. Upto(upto)
  BY <1>1, Zenon
<1>3. Serial!RunSerially(V[from], from, to) = upto[to]
  BY Zenon DEF Serial!RunSerially
<1> HIDE DEF upto, W
<1>4. upto[from] = V[from]
  <2>1. from \in from .. to
    OBVIOUS
  <2> QED
    BY <1>2, <2>1, Zenon
<1>5. \A n \in from .. to : n # from => upto[n] = Serial!After(upto[n - 1], program[n - 1])
  BY <1>2, Zenon
<1> DEFINE Off == {n \in from .. to : upto[n] # V[n]}
<1>6. Off = {}
  <2> SUFFICES ASSUME Off # {} PROVE FALSE
    OBVIOUS
  <2> Off \subseteq Nat
    OBVIOUS
  <2>1. PICK n \in Off : \A m \in Off : n <= m
    BY LeastNatural, Zenon
  <2>2. n # from
    BY <1>4, Zenon
  <2>3. n - 1 \in from .. (to - 1) /\ (n - 1) + 1 = n /\ n - 1 \in from .. to /\ ~(n <= n - 1)
    BY <2>2
  <2>4. upto[n - 1] = V[n - 1]
    BY <2>1, <2>3, Zenon
  <2> QED
    BY <1>5, <2>2, <2>3, <2>4, Zenon
<1> QED
  BY <1>3, <1>6

------------------------------------------------------------------------------
(* Types *)

\* The variables of the transactions and of the scheduler are well typed.
ExecTypeOK ==
  /\ parentStore \in [Keys -> Read]
  /\ readset \in [Tx -> [Keys -> Read \cup {None}]]
  /\ Writeset \in [Tx -> [Keys -> Read \cup {None}]]
  /\ txReadSets \in [Tx -> [Keys -> Read \cup {None}]]
  /\ status \in [Tx -> {"pending", "running", "aborted", "writing", "executed",
                        "invalid", "invalidating"}]
  /\ program \in Blocks
  /\ ip \in [Tx -> Nat]
  /\ \A i \in Tx : ip[i] \in 1 .. (Len(program[i]) + 1)
  /\ acc \in [Tx -> Read]
  /\ dep \in [Tx -> Tx \cup {None}]
  /\ committed \in BOOLEAN

\* The two parts of the type invariant.
LEMMA TypeParts == BlockTypeOK <=> TypeOK /\ ExecTypeOK
BY Zenon DEF BlockTypeOK, ExecTypeOK

\* A program is a sequence of instructions.
LEMMA ProgramType ==
  ASSUME ExecTypeOK, NEW i \in Tx
  PROVE  program[i] \in Seq(Serial!Instructions) /\ Len(program[i]) \in Nat
<1>1. program \in [Tx -> Seq(Serial!Instructions)]
  BY BlocksAssumption, Zenon DEF ExecTypeOK
<1>2. program[i] \in Seq(Serial!Instructions)
  BY <1>1, Zenon
<1> QED
  BY <1>2

\* The instruction a running incarnation is at.
LEMMA InsType ==
  ASSUME ExecTypeOK, NEW i \in Tx, Running(i)
  PROVE  /\ ip[i] \in 1 .. Len(program[i])
         /\ Ins(i).op \in {"get", "set", "delete"} =>
              Ins(i).key \in Keys /\ Ins(i).val \in [Read -> Values]
<1>1. ip[i] \in 1 .. Len(program[i])
  BY ProgramType DEF Running, ExecTypeOK
<1>2. program[i][ip[i]] \in Serial!Instructions
  BY <1>1, ProgramType
<1>3. ASSUME NEW ins \in Serial!Instructions, ins.op \in {"get", "set", "delete"}
      PROVE  ins.key \in Keys /\ ins.val \in [Values \cup {Nil} -> Values]
  BY <1>3, Zenon DEF Serial!Instructions
<1> QED
  BY <1>1, <1>2, <1>3, Zenon DEF Ins, Read

\* A Get that does not abort returns a value or nil.
LEMMA GetType ==
  ASSUME BlockTypeOK, NEW i \in Tx, NEW k \in Keys, ~GetAborts(i, k)
  PROVE  /\ GetValue(i, k) \in Read
         /\ ~Cached(i, k) => FreshValue(i, k) \in Read
<1>1. /\ Writeset[i][k] \in Read \cup {None}
      /\ readset[i][k] \in Read \cup {None}
      /\ parentStore[k] \in Read
  BY Zenon DEF BlockTypeOK
<1>2. ~Cached(i, k) => FreshValue(i, k) \in Read
  <2>1. i \in 0 .. N
    BY ConstantsAssumption DEF Tx
  <2>2. LatestBefore(i, k) \in Version \cup {None}
    BY <2>1, LatestIsVersion, Zenon DEF BlockTypeOK
  <2> QED
    BY <1>1, <2>2, Reads, Zenon DEF GetAborts, FreshValue
<1> QED
  BY <1>1, <1>2, Zenon DEF GetValue, Cached, CachedValue

\* Every step of the block is a step of the multiversion store or leaves it as it
\* is.
LEMMA StoreAction == BlockTypeOK /\ [BlockNext]_allVars => [Next]_vars
<1> SUFFICES ASSUME BlockTypeOK, [BlockNext]_allVars PROVE [Next]_vars
  OBVIOUS
<1>1. ASSUME NEW i \in Tx, Abort(i) PROVE Next
  <2>1. WrittenKeys(Writeset[i]) \in SUBSET Keys
    BY Zenon DEF WrittenKeys
  <2>2. SetEstimatedWriteset(i, WrittenKeys(Writeset[i]))
    BY <1>1, Zenon DEF Abort, AbortOn, WriteEstimatesToMultiVersionStore
  <2> QED
    BY <2>1, <2>2, Zenon DEF Next, Enter
<1>2. ASSUME NEW i \in Tx, WriteOut(i) PROVE Next
  <2>1. Writeset[i] \in [Keys -> Values \cup {Nil, None}]
    BY Zenon DEF BlockTypeOK, Read
  <2>2. SetWriteset(i, Writeset[i])
    BY <1>2, Zenon DEF WriteOut, WriteToMultiVersionStore
  <2> QED
    BY <2>1, <2>2, Zenon DEF Next, Enter
<1>3. ASSUME NEW i \in Tx, StoreStep(i) PROVE Next
  BY <1>3, Zenon DEF StoreStep, Next
<1>4. ASSUME NEW i \in Tx, Invalidate(i) PROVE Next
  BY <1>4, Zenon DEF Invalidate, Next, Enter
<1>5. ASSUME NEW i \in Tx,
             \/ Start(i) \/ Skip(i) \/ Get(i) \/ Write(i) \/ FinishWrite(i)
             \/ FindStale(i) \/ Retry(i)
      PROVE  UNCHANGED vars
  BY <1>5, Zenon DEF Start, Skip, Get, Write, FinishWrite, FindStale, Retry
<1>6. CASE Commit
  BY <1>6, Zenon DEF Commit
<1>7. CASE UNCHANGED allVars
  BY <1>7, Zenon DEF allVars
<1>8. CASE Done
  BY <1>7, <1>8, Zenon DEF Done
<1> QED
  BY <1>1, <1>2, <1>3, <1>4, <1>5, <1>6, <1>7, <1>8, Zenon DEF BlockNext, Step

\* A fresh VersionIndexedStore is well typed.
LEMMA EmptyType == EmptySet \in [Keys -> Read \cup {None}]
BY Zenon DEF EmptySet

\* Every step keeps the transactions and the scheduler well typed.
LEMMA ExecTypeStep == BlockTypeOK /\ [BlockNext]_allVars => ExecTypeOK'
<1> SUFFICES ASSUME BlockTypeOK, [BlockNext]_allVars PROVE ExecTypeOK'
  OBVIOUS
<1> TypeOK /\ ExecTypeOK
  BY TypeParts, Zenon
<1>b. ASSUME NEW i \in Tx PROVE 1 \in 1 .. (Len(program[i]) + 1)
  BY ProgramType
<1>1. ASSUME NEW i \in Tx, Start(i) PROVE ExecTypeOK'
  <2>1. /\ ip' \in [Tx -> Nat]
        /\ \A j \in Tx : ip'[j] \in 1 .. (Len(program[j]) + 1)
    BY <1>1, <1>b, Zenon DEF Start, ExecTypeOK
  <2>2. readset' \in [Tx -> [Keys -> Read \cup {None}]] /\ Writeset' \in [Tx -> [Keys -> Read \cup {None}]]
    BY <1>1, EmptyType, Zenon DEF Start, ExecTypeOK, NewVersionIndexedStore
  <2> QED
    BY <1>1, <2>1, <2>2, Reads, Zenon DEF Start, ExecTypeOK
<1>2. ASSUME NEW i \in Tx, Running(i), Advance(i), UNCHANGED program
      PROVE  /\ ip' \in [Tx -> Nat]
             /\ \A j \in Tx : ip'[j] \in 1 .. (Len(program'[j]) + 1)
  <2>1. ip[i] \in 1 .. Len(program[i]) /\ Len(program[i]) \in Nat
    BY <1>2, InsType, ProgramType, Zenon
  <2>2. ip \in [Tx -> Nat] /\ \A j \in Tx : ip[j] \in 1 .. (Len(program[j]) + 1)
    BY Zenon DEF ExecTypeOK
  <2> QED
    BY <1>2, <2>1, <2>2 DEF Advance
<1>3. ASSUME NEW i \in Tx, Skip(i) PROVE ExecTypeOK'
  BY <1>2, <1>3, Zenon DEF Skip, ExecTypeOK, mvkvVars
<1>4. ASSUME NEW i \in Tx, Get(i) PROVE ExecTypeOK'
  <2> DEFINE k == Ins(i).key
  <2>1. k \in Keys /\ ~GetAborts(i, k)
    BY <1>4, InsType, Zenon DEF Get
  <2>2. GetValue(i, k) \in Read /\ (~Cached(i, k) => FreshValue(i, k) \in Read)
    BY <2>1, GetType, Zenon
  <2>3. readset' \in [Tx -> [Keys -> Read \cup {None}]]
    BY <1>4, <2>1, <2>2, Zenon DEF Get, UpdateReadSet, ExecTypeOK
  <2>4. acc' \in [Tx -> Read]
    BY <1>4, <2>2, Zenon DEF Get, ExecTypeOK
  <2> QED
    BY <1>2, <1>4, <2>3, <2>4, Zenon DEF Get, ExecTypeOK
<1>5. ASSUME NEW i \in Tx, Write(i) PROVE ExecTypeOK'
  <2> DEFINE v == IF Ins(i).op = "set" THEN Ins(i).val[acc[i]] ELSE Nil
  <2>1. acc[i] \in Read /\ Ins(i).key \in Keys /\ Ins(i).val \in [Read -> Values]
    BY <1>5, InsType, Zenon DEF Write, ExecTypeOK
  <2>2. v \in Read
    BY <2>1, Zenon DEF Read
  <2>3. Writeset' = [Writeset EXCEPT ![i][Ins(i).key] = v]
    BY <1>5, Zenon DEF Write, setValue
  <2> HIDE DEF v
  <2>4. Writeset' \in [Tx -> [Keys -> Read \cup {None}]]
    BY <2>1, <2>2, <2>3, Zenon DEF ExecTypeOK
  <2> QED
    BY <1>2, <1>5, <2>4, Zenon DEF Write, ExecTypeOK
<1>6. ASSUME NEW i \in Tx, Abort(i) PROVE ExecTypeOK'
  <2>1. Ins(i).key \in Keys /\ i \in 0 .. N
    BY <1>6, InsType, ConstantsAssumption DEF Abort, Tx
  <2>2. GetLatestBeforeIndex(i, Ins(i).key) \in Tx \cup {None}
    BY <2>1, LatestIsVersion, Zenon
  <2>3. readset' \in [Tx -> [Keys -> Read \cup {None}]] /\ Writeset' \in [Tx -> [Keys -> Read \cup {None}]]
    BY <1>6, EmptyType, Zenon DEF Abort, AbortOn, ExecTypeOK, NewVersionIndexedStore
  <2>4. dep' \in [Tx -> Tx \cup {None}]
    BY <1>6, <2>2, Zenon DEF Abort, AbortOn, ExecTypeOK
  <2> QED
    BY <1>6, <2>3, <2>4, Zenon DEF Abort, AbortOn, ExecTypeOK
<1>7. ASSUME NEW i \in Tx, WriteOut(i) PROVE ExecTypeOK'
  BY <1>7, Zenon DEF WriteOut, ExecTypeOK, execVars, mvkvVars
<1>8. ASSUME NEW i \in Tx, FinishWrite(i) PROVE ExecTypeOK'
  <2>1. /\ ip' \in [Tx -> Nat]
        /\ \A j \in Tx : ip'[j] \in 1 .. (Len(program[j]) + 1)
    BY <1>8, <1>b, Zenon DEF FinishWrite, ExecTypeOK
  <2>2. readset' \in [Tx -> [Keys -> Read \cup {None}]] /\ Writeset' \in [Tx -> [Keys -> Read \cup {None}]]
    BY <1>8, EmptyType, Zenon DEF FinishWrite, ExecTypeOK, NewVersionIndexedStore
  <2>3. txReadSets' \in [Tx -> [Keys -> Read \cup {None}]]
    BY <1>8, Zenon DEF FinishWrite, SetReadset, ExecTypeOK
  <2> QED
    BY <1>8, <2>1, <2>2, <2>3, Reads, Zenon DEF FinishWrite, ExecTypeOK
<1>9. ASSUME NEW i \in Tx, StoreStep(i) PROVE ExecTypeOK'
  BY <1>9, Zenon DEF StoreStep, ExecTypeOK, blockVars
<1>10. ASSUME NEW i \in Tx, FindStale(i) PROVE ExecTypeOK'
  BY <1>10, Zenon DEF FindStale, ExecTypeOK, execVars, mvkvVars
<1>11. ASSUME NEW i \in Tx, Invalidate(i) PROVE ExecTypeOK'
  BY <1>11, Zenon DEF Invalidate, ExecTypeOK, execVars, mvkvVars
<1>12. ASSUME NEW i \in Tx, Retry(i) PROVE ExecTypeOK'
  <2>1. txReadSets' \in [Tx -> [Keys -> Read \cup {None}]]
    BY <1>12, EmptyType, Zenon DEF Retry, ClearReadset, ExecTypeOK
  <2> QED
    BY <1>12, <2>1, Zenon DEF Retry, ExecTypeOK, execVars, mvkvVars
<1>13. CASE Commit
  <2>1. parentStore' \in [Keys -> Read]
    <3>1. \A k \in Keys : GetLatestNonEstimate(k) \in Read \cup {None} /\ parentStore[k] \in Read
      BY LatestNonEstimate, Zenon DEF ExecTypeOK
    <3> QED
      BY <1>13, <3>1, Zenon DEF Commit, WriteLatestToStore
  <2> QED
    BY <1>13, <2>1, Zenon DEF Commit, ExecTypeOK, execVars, mvkvVars
<1>14. CASE UNCHANGED allVars
  BY <1>14, Zenon DEF allVars, blockVars, ExecTypeOK
<1>15. CASE Done
  BY <1>14, <1>15, Zenon DEF Done
<1> QED
  BY <1>1, <1>3, <1>4, <1>5, <1>6, <1>7, <1>8, <1>9, <1>10, <1>11, <1>12, <1>13, <1>14, <1>15,
     Zenon DEF BlockNext, Step

\* The store, the transactions and the scheduler are well typed: no estimate
\* gets into a readset, a register or the parent store.
THEOREM BlockTypes == BlockSpec => []BlockTypeOK
<1>1. BlockInit => BlockTypeOK
  <2> SUFFICES ASSUME BlockInit PROVE BlockTypeOK
    OBVIOUS
  <2>1. TypeOK
    BY TypeInit, Zenon DEF BlockInit
  <2>2. PICK s \in Parents : InitStores(s)
    BY Zenon DEF BlockInit
  <2>3. /\ parentStore \in [Keys -> Read]
        /\ readset \in [Tx -> [Keys -> Read \cup {None}]]
        /\ Writeset \in [Tx -> [Keys -> Read \cup {None}]]
        /\ txReadSets \in [Tx -> [Keys -> Read \cup {None}]]
    BY <2>2, BlocksAssumption, EmptyType, Zenon DEF InitStores
  <2>4. program \in [Tx -> Seq(Serial!Instructions)]
    BY BlocksAssumption, Zenon DEF BlockInit
  <2>5. \A i \in Tx : Len(program[i]) \in Nat
    BY <2>4
  <2>6. ip \in [Tx -> Nat] /\ \A i \in Tx : ip[i] \in 1 .. (Len(program[i]) + 1)
    BY <2>5 DEF BlockInit
  <2>7. acc \in [Tx -> Read] /\ dep \in [Tx -> Tx \cup {None}]
    BY Reads, Zenon DEF BlockInit
  <2> QED
    BY <2>1, <2>3, <2>6, <2>7, Zenon DEF BlockInit, BlockTypeOK
<1>2. BlockTypeOK /\ [BlockNext]_allVars => BlockTypeOK'
  <2>1. TypeOK' /\ ExecTypeOK' => BlockTypeOK'
    BY Zenon DEF BlockTypeOK, ExecTypeOK
  <2> QED
    BY <2>1, TypeParts, TypeStep, ExecTypeStep, StoreAction, Zenon
<1> QED
  BY <1>1, <1>2, PTL DEF BlockSpec

\* The scheduler uses the multiversion store as its specification allows: all
\* that is proved about the store holds while a block is executed.
THEOREM BlockUsesStore == BlockSpec => Spec
<1>1. BlockInit => Init
  BY Zenon DEF BlockInit
<1> QED
  BY <1>1, BlockTypes, StoreAction, PTL DEF BlockSpec, Spec

------------------------------------------------------------------------------
(* Incarnations and their reads *)

\* What an action leaves of a transaction, its invariant keeps.
LEMMA SameTx ==
  ASSUME NEW j \in Tx, StatusInv(j), ReadsDecide(j),
         status'[j] = status[j], pc'[j] = pc[j], writeset'[j] = writeset[j],
         Writeset'[j] = Writeset[j], readset'[j] = readset[j], txReadSets'[j] = txReadSets[j],
         ip'[j] = ip[j], acc'[j] = acc[j], program' = program, committed' = committed
  PROVE  StatusInv(j)' /\ ReadsDecide(j)'
<1>1. StatusInv(j)'
  BY Zenon DEF StatusInv
<1>2. ReadsDecide(j)'
  BY DEF ReadsDecide, Agrees, Overlay
<1> QED
  BY <1>1, <1>2, Zenon

\* A store that agrees with a larger readset agrees with a smaller one.
LEMMA AgreesWithLess ==
  ASSUME NEW s, NEW r, NEW r2, \A k \in Keys : r[k] # None => r2[k] = r[k], Agrees(s, r2)
  PROVE  Agrees(s, r)
BY Zenon DEF Agrees

\* The state a running incarnation is in, from that before an instruction to
\* that after it.
LEMMA NextInstruction ==
  ASSUME BlockTypeOK, NEW i \in Tx, Running(i), ReadsDecide(i),
         NEW s \in [Keys -> Read], Agrees(s, readset[i])
  PROVE  /\ acc[i] \notin Ins(i).when =>
              Serial!Run(s, program[i])[ip[i]] =
                [store |-> Overlay(s, Writeset[i]), acc |-> acc[i]]
         /\ acc[i] \in Ins(i).when /\ Ins(i).op = "get" =>
              Serial!Run(s, program[i])[ip[i]] =
                [store |-> Overlay(s, Writeset[i]), acc |-> Overlay(s, Writeset[i])[Ins(i).key]]
         /\ acc[i] \in Ins(i).when /\ Ins(i).op = "set" =>
              Serial!Run(s, program[i])[ip[i]] =
                [store |-> [Overlay(s, Writeset[i]) EXCEPT ![Ins(i).key] = Ins(i).val[acc[i]]],
                 acc |-> acc[i]]
         /\ acc[i] \in Ins(i).when /\ Ins(i).op = "delete" =>
              Serial!Run(s, program[i])[ip[i]] =
                [store |-> [Overlay(s, Writeset[i]) EXCEPT ![Ins(i).key] = Nil], acc |-> acc[i]]
<1>1. ip[i] \in 1 .. Len(program[i]) /\ Len(program[i]) \in Nat
  BY TypeParts, InsType, ProgramType, Zenon
<1>2. Serial!Run(s, program[i])[ip[i] - 1] = [store |-> Overlay(s, Writeset[i]), acc |-> acc[i]]
  BY Zenon DEF ReadsDecide, Running
<1>3. Serial!Run(s, program[i])[ip[i]] =
        Serial!Execute(Serial!Run(s, program[i])[ip[i] - 1], program[i][ip[i]])
  <2>1. PICK p : p = program[i]
    OBVIOUS
  <2>2. \A n \in 1 .. Len(p) :
          Serial!Run(s, p)[n] = Serial!Execute(Serial!Run(s, p)[n - 1], p[n])
    <3>1. Len(p) \in Nat
      BY <1>1, <2>1, Zenon
    <3> HIDE <2>1
    <3> QED
      BY <3>1, RunUnfold, Zenon
  <2> QED
    BY <1>1, <2>1, <2>2, Zenon
<1>4. PICK S, a, ins : S = Overlay(s, Writeset[i]) /\ a = acc[i] /\ ins = Ins(i)
  OBVIOUS
<1>5. Serial!Run(s, program[i])[ip[i]] = Serial!Execute([store |-> S, acc |-> a], ins)
  BY <1>2, <1>3, <1>4, Zenon DEF Ins
<1>6. PICK result : result = Serial!Execute([store |-> S, acc |-> a], ins)
  OBVIOUS
<1>7. /\ a \notin ins.when => result = [store |-> S, acc |-> a]
      /\ a \in ins.when /\ ins.op = "get" => result = [store |-> S, acc |-> S[ins.key]]
      /\ a \in ins.when /\ ins.op = "set" =>
           result = [store |-> [S EXCEPT ![ins.key] = ins.val[a]], acc |-> a]
      /\ a \in ins.when /\ ins.op = "delete" =>
           result = [store |-> [S EXCEPT ![ins.key] = Nil], acc |-> a]
  <2> HIDE <1>4
  <2> QED
    BY <1>6, Executed
<1>8. Serial!Run(s, program[i])[ip[i]] = result
  BY <1>5, <1>6, Zenon
<1> QED
  BY <1>4, <1>7, <1>8, Zenon

\* What ReadsDecide says of an incarnation that goes on running.
LEMMA GoesOn ==
  ASSUME NEW i \in Tx, status'[i] = "running",
         \A s \in [Keys -> Read] : Agrees(s, readset'[i]) =>
           Serial!Run(s, program'[i])[ip'[i] - 1] =
             [store |-> Overlay(s, Writeset'[i]), acc |-> acc'[i]]
  PROVE  ReadsDecide(i)'
BY Zenon DEF ReadsDecide, Agrees, Overlay

\* What an incarnation that runs has read decides what it does next.
LEMMA RunningStep ==
  ASSUME BlockTypeOK, NEW i \in Tx, StatusInv(i), ReadsDecide(i),
         Skip(i) \/ Get(i) \/ Write(i)
  PROVE  StatusInv(i)' /\ ReadsDecide(i)'
<1> ExecTypeOK /\ Running(i) /\ status[i] = "running" /\ ip[i] \in 1 .. Len(program[i])
  BY TypeParts, InsType, Zenon DEF Skip, Get, Write, Running
<1> /\ status' = status /\ pc' = pc /\ committed' = committed
      /\ txReadSets' = txReadSets /\ program' = program /\ ip' = [ip EXCEPT ![i] = @ + 1]
  BY Zenon DEF Skip, Get, Write, Advance, vars, callVars
<1> ip'[i] - 1 = ip[i] /\ status'[i] = "running"
  BY DEF ExecTypeOK
<1>1. StatusInv(i)'
  BY Zenon DEF StatusInv
<1>2. CASE Skip(i)
  <2> SUFFICES ASSUME NEW s \in [Keys -> Read], Agrees(s, readset'[i])
               PROVE  Serial!Run(s, program'[i])[ip'[i] - 1] =
                        [store |-> Overlay(s, Writeset'[i]), acc |-> acc'[i]]
    BY <1>1, GoesOn, Zenon
  <2>1. readset' = readset /\ Writeset' = Writeset /\ acc' = acc /\ acc[i] \notin Ins(i).when
    BY <1>2, Zenon DEF Skip, mvkvVars
  <2> Agrees(s, readset[i])
    BY <2>1, Zenon
  <2>2. Serial!Run(s, program[i])[ip[i]] = [store |-> Overlay(s, Writeset[i]), acc |-> acc[i]]
    BY <2>1, NextInstruction, Zenon
  <2> QED
    BY <2>1, <2>2, Zenon
<1>3. CASE Get(i)
  <2> SUFFICES ASSUME NEW s \in [Keys -> Read], Agrees(s, readset'[i])
               PROVE  Serial!Run(s, program'[i])[ip'[i] - 1] =
                        [store |-> Overlay(s, Writeset'[i]), acc |-> acc'[i]]
    BY <1>1, GoesOn, Zenon
  <2> DEFINE k == Ins(i).key
  <2>1. /\ k \in Keys /\ Writeset' = Writeset /\ acc[i] \in Ins(i).when /\ Ins(i).op = "get"
        /\ ~GetAborts(i, k)
    BY <1>3, InsType, Zenon DEF Get
  <2>2. acc'[i] = GetValue(i, k)
    BY <1>3, Zenon DEF Get, ExecTypeOK
  <2>3. \A j \in Keys : readset[i][j] # None => readset'[i][j] = readset[i][j]
    BY <1>3, <2>1, Zenon DEF Get, UpdateReadSet, Cached, ExecTypeOK
  <2>4. ~Cached(i, k) => readset'[i][k] = FreshValue(i, k)
    BY <1>3, <2>1, Zenon DEF Get, UpdateReadSet, ExecTypeOK
  <2>5. Cached(i, k) => readset' = readset
    BY <1>3, Zenon DEF Get, UpdateReadSet
  <2>6. Agrees(s, readset[i])
    BY <2>3, AgreesWithLess, Zenon
  <2>7. Overlay(s, Writeset[i])[k] = GetValue(i, k)
    <3>1. ~Cached(i, k) => FreshValue(i, k) \in Read
      BY <2>1, GetType, Zenon
    <3>2. readset'[i][k] # None => s[k] = readset'[i][k]
      BY <2>1, Zenon DEF Agrees
    <3> HIDE DEF k
    <3> QED
      BY <2>1, <2>4, <2>5, <3>1, <3>2, Reads, Zenon DEF Overlay, GetValue, CachedValue, Cached
  <2>8. Serial!Run(s, program[i])[ip[i]] =
          [store |-> Overlay(s, Writeset[i]), acc |-> Overlay(s, Writeset[i])[k]]
    BY <2>1, <2>6, NextInstruction, Zenon
  <2> HIDE DEF k
  <2> QED
    BY <2>1, <2>2, <2>7, <2>8, Zenon
<1>4. CASE Write(i)
  <2> SUFFICES ASSUME NEW s \in [Keys -> Read], Agrees(s, readset'[i])
               PROVE  Serial!Run(s, program'[i])[ip'[i] - 1] =
                        [store |-> Overlay(s, Writeset'[i]), acc |-> acc'[i]]
    BY <1>1, GoesOn, Zenon
  <2> DEFINE k == Ins(i).key
             v == IF Ins(i).op = "set" THEN Ins(i).val[acc[i]] ELSE Nil
  <2>1. /\ k \in Keys /\ Ins(i).val \in [Read -> Values] /\ acc[i] \in Read
        /\ acc[i] \in Ins(i).when /\ Ins(i).op \in {"set", "delete"}
        /\ readset' = readset /\ acc' = acc
    BY <1>4, InsType, Zenon DEF Write, ExecTypeOK
  <2>2. v \in Read
    BY <2>1, Zenon DEF Read
  <2>3. Writeset'[i] = [Writeset[i] EXCEPT ![k] = v] /\ Writeset[i] \in [Keys -> Read \cup {None}]
    BY <1>4, Zenon DEF Write, setValue, ExecTypeOK
  <2>4. Agrees(s, readset[i])
    BY <2>1, Zenon
  <2>5. Serial!Run(s, program[i])[ip[i]] =
          [store |-> [Overlay(s, Writeset[i]) EXCEPT ![k] = v], acc |-> acc[i]]
    <3>1. CASE Ins(i).op = "set"
      BY <2>1, <2>4, <3>1, NextInstruction, Zenon
    <3>2. CASE Ins(i).op = "delete"
      BY <2>1, <2>4, <3>2, NextInstruction, Zenon
    <3> QED
      BY <2>1, <3>1, <3>2, Zenon
  <2> HIDE DEF k, v
  <2>6. Overlay(s, Writeset'[i]) = [Overlay(s, Writeset[i]) EXCEPT ![k] = v]
    BY <2>1, <2>2, <2>3, Reads, Zenon DEF Overlay
  <2> QED
    BY <2>1, <2>5, <2>6, Zenon
<1> QED
  BY <1>1, <1>2, <1>3, <1>4, Zenon

\* A store with nothing written on it.
LEMMA OverlayNothing ==
  ASSUME NEW s \in [Keys -> Read]
  PROVE  Overlay(s, EmptySet) = s
BY Zenon DEF Overlay, EmptySet

\* A fresh incarnation has done nothing.
LEMMA StartStep ==
  ASSUME BlockTypeOK, NEW i \in Tx, StatusInv(i), Start(i)
  PROVE  StatusInv(i)' /\ ReadsDecide(i)'
<1> ExecTypeOK
  BY TypeParts, Zenon
<1>1. /\ status'[i] = "running" /\ pc[i] = "idle" /\ pc' = pc /\ ip'[i] = 1 /\ acc'[i] = Nil
      /\ readset'[i] = EmptySet /\ Writeset'[i] = EmptySet
      /\ txReadSets' = txReadSets /\ committed' = committed /\ program' = program
      /\ status[i] \in {"pending", "aborted"}
  BY Zenon DEF Start, NewVersionIndexedStore, ExecTypeOK, vars, callVars
<1>2. StatusInv(i)'
  BY <1>1, Zenon DEF StatusInv
<1>3. ASSUME NEW s \in [Keys -> Read]
      PROVE  Serial!Run(s, program'[i])[ip'[i] - 1] =
               [store |-> Overlay(s, Writeset'[i]), acc |-> acc'[i]]
  <2>1. PICK p : p = program[i]
    OBVIOUS
  <2>2. Serial!Run(s, p)[0] = [store |-> s, acc |-> Nil]
    <3>1. Len(p) \in Nat
      BY <2>1, ProgramType, Zenon
    <3> HIDE <2>1
    <3> QED
      BY <3>1, RunUnfold, Zenon
  <2> QED
    BY <1>1, <2>1, <2>2, OverlayNothing
<1> QED
  BY <1>1, <1>2, <1>3, GoesOn, Zenon

\* An incarnation that has ended has done what the whole program does.
LEMMA WriteOutStep ==
  ASSUME BlockTypeOK, NEW i \in Tx, StatusInv(i), ReadsDecide(i), WriteOut(i)
  PROVE  StatusInv(i)' /\ ReadsDecide(i)'
<1> TypeOK /\ ExecTypeOK /\ Len(program[i]) \in Nat
  BY TypeParts, ProgramType, Zenon
<1>1. /\ status[i] = "running" /\ status'[i] = "writing" /\ writeset'[i] = Writeset[i]
      /\ readset' = readset /\ Writeset' = Writeset /\ txReadSets' = txReadSets
      /\ committed' = committed /\ program' = program
  BY Zenon DEF WriteOut, WriteToMultiVersionStore, SetWriteset, Begin, mvkvVars, ExecTypeOK, TypeOK
<1>2. StatusInv(i)'
  <2>1. \A k \in Keys : writeset'[i][k] \in Read \cup {None}
    BY <1>1, Zenon DEF ExecTypeOK
  <2> QED
    BY <1>1, <2>1, Zenon DEF StatusInv
<1>3. ip[i] - 1 = Len(program[i])
  BY DEF WriteOut, ExecTypeOK
<1>4. ASSUME NEW s \in [Keys -> Read], Agrees(s, readset[i])
      PROVE  Serial!After(s, program[i]) = Overlay(s, Writeset[i])
  <2>1. Serial!Run(s, program[i])[Len(program[i])] =
          [store |-> Overlay(s, Writeset[i]), acc |-> acc[i]]
    BY <1>1, <1>3, <1>4, Zenon DEF ReadsDecide
  <2> QED
    BY <2>1 DEF Serial!After
<1>5. status'[i] # "running" /\ status'[i] # "executed"
  BY <1>1, Zenon
<1>6. ReadsDecide(i)'
  BY <1>1, <1>4, <1>5, SMTT(30) DEF ReadsDecide, Agrees, Overlay
<1> QED
  BY <1>2, <1>6, Zenon

\* Its readset is stored, unless it is empty, and then none is.
LEMMA FinishWriteStep ==
  ASSUME BlockTypeOK, NEW i \in Tx, StatusInv(i), ReadsDecide(i), FinishWrite(i)
  PROVE  StatusInv(i)' /\ ReadsDecide(i)'
<1> ExecTypeOK
  BY TypeParts, Zenon
<1>1. /\ status[i] = "writing" /\ status'[i] = "executed" /\ pc[i] = "idle" /\ pc' = pc
      /\ writeset' = writeset /\ committed' = committed /\ program' = program
  BY Zenon DEF FinishWrite, vars, callVars, ExecTypeOK
<1>2. txReadSets'[i] = readset[i]
  <2>1. txReadSets[i] = EmptySet
    BY <1>1, Zenon DEF StatusInv
  <2> QED
    BY <2>1, Zenon DEF FinishWrite, SetReadset, ExecTypeOK
<1>3. StatusInv(i)'
  BY <1>1, Zenon DEF StatusInv
<1>4. ReadsDecide(i)'
  BY <1>1, <1>2, Zenon DEF ReadsDecide, Agrees, Overlay
<1> QED
  BY <1>3, <1>4, Zenon

\* An incarnation that is given up, found invalid or to be run again: nothing is
\* said of what it did.
LEMMA GivenUpStep ==
  ASSUME BlockTypeOK, NEW i \in Tx, StatusInv(i),
         Abort(i) \/ FindStale(i) \/ Invalidate(i) \/ Retry(i)
  PROVE  StatusInv(i)' /\ ReadsDecide(i)'
<1> TypeOK /\ ExecTypeOK
  BY TypeParts, Zenon
<1>1. CASE Abort(i)
  <2>1. /\ status[i] = "running" /\ status'[i] = "aborted"
        /\ committed' = committed /\ txReadSets' = txReadSets
    BY <1>1, Zenon DEF Abort, AbortOn, Running, ExecTypeOK
  <2> QED
    BY <2>1, Zenon DEF StatusInv, ReadsDecide
<1>2. CASE FindStale(i)
  <2>1. /\ status[i] = "executed" /\ status'[i] = "invalid" /\ ~committed /\ committed' = committed
        /\ pc' = pc /\ writeset' = writeset
    BY <1>2, Zenon DEF FindStale, vars, callVars, ExecTypeOK
  <2> QED
    BY <2>1, Zenon DEF StatusInv, ReadsDecide
<1>3. CASE Invalidate(i)
  <2>1. status[i] = "invalid" /\ status'[i] = "invalidating" /\ committed' = committed
    BY <1>3, Zenon DEF Invalidate, ExecTypeOK
  <2> QED
    BY <2>1, Zenon DEF StatusInv, ReadsDecide
<1>4. CASE Retry(i)
  <2>1. /\ status[i] = "invalidating" /\ status'[i] = "pending" /\ pc[i] = "idle" /\ pc' = pc
        /\ committed' = committed /\ txReadSets'[i] = EmptySet
    BY <1>4, Zenon DEF Retry, ClearReadset, vars, callVars, ExecTypeOK
  <2> QED
    BY <2>1, Zenon DEF StatusInv, ReadsDecide
<1> QED
  BY <1>1, <1>2, <1>3, <1>4, Zenon

\* An action of one transaction leaves all the others.
LEMMA OthersKept ==
  ASSUME BlockTypeOK, NEW i \in Tx, Step(i), NEW j \in Tx, j # i
  PROVE  /\ status'[j] = status[j] /\ pc'[j] = pc[j] /\ writeset'[j] = writeset[j]
         /\ Writeset'[j] = Writeset[j] /\ readset'[j] = readset[j]
         /\ txReadSets'[j] = txReadSets[j] /\ ip'[j] = ip[j] /\ acc'[j] = acc[j]
         /\ program' = program /\ committed' = committed
<1> TypeOK /\ ExecTypeOK
  BY TypeParts, Zenon
<1> USE DEF ExecTypeOK, vars, callVars, mvkvVars, execVars
<1>1. CASE Start(i)
  BY <1>1, Zenon DEF Start, NewVersionIndexedStore
<1>2. CASE Skip(i)
  BY <1>2, Zenon DEF Skip, Advance
<1>3. CASE Get(i)
  BY <1>3, Zenon DEF Get, Advance, UpdateReadSet
<1>4. CASE Write(i)
  BY <1>4, Zenon DEF Write, Advance, setValue
<1>5. CASE Abort(i)
  BY <1>5, Zenon DEF Abort, AbortOn, NewVersionIndexedStore, WriteEstimatesToMultiVersionStore,
                    SetEstimatedWriteset, Begin, TypeOK
<1>6. CASE WriteOut(i)
  BY <1>6, Zenon DEF WriteOut, WriteToMultiVersionStore, SetWriteset, Begin, TypeOK
<1>7. CASE FinishWrite(i)
  BY <1>7, Zenon DEF FinishWrite, SetReadset, NewVersionIndexedStore
<1>8. CASE StoreStep(i)
  BY <1>8, ProceedFrame, Zenon DEF StoreStep, blockVars
<1>9. CASE FindStale(i)
  BY <1>9, Zenon DEF FindStale
<1>10. CASE Invalidate(i)
  BY <1>10, Zenon DEF Invalidate, InvalidateWriteset, TypeOK
<1>11. CASE Retry(i)
  BY <1>11, Zenon DEF Retry, ClearReadset
<1> QED
  BY <1>1, <1>2, <1>3, <1>4, <1>5, <1>6, <1>7, <1>8, <1>9, <1>10, <1>11, Zenon DEF Step

\* A call on the multiversion store goes on: the transaction it is made for is
\* in a state that says nothing of where the call stands.
LEMMA StoreStepKeeps ==
  ASSUME BlockTypeOK, NEW i \in Tx, StoreStep(i), StatusInv(i), ReadsDecide(i)
  PROVE  StatusInv(i)' /\ ReadsDecide(i)'
<1>1. writeset' = writeset /\ pc[i] # "idle"
  BY TypeParts, ProceedFrame, Zenon DEF StoreStep
<1>2. UNCHANGED blockVars
  BY Zenon DEF StoreStep
<1>3. StatusInv(i)'
  BY <1>1, <1>2, Zenon DEF StatusInv, blockVars
<1>4. ReadsDecide(i)'
  BY <1>1, <1>2, Zenon DEF ReadsDecide, blockVars, Agrees, Overlay
<1> QED
  BY <1>3, <1>4, Zenon

\* Every step keeps what is known of the incarnations.
LEMMA SerialStep == BlockTypeOK /\ SerialInv /\ [BlockNext]_allVars => SerialInv'
<1> SUFFICES ASSUME BlockTypeOK, SerialInv, [BlockNext]_allVars, NEW j \in Tx
             PROVE  StatusInv(j)' /\ ReadsDecide(j)'
  BY Zenon DEF SerialInv
<1> StatusInv(j) /\ ReadsDecide(j)
  BY Zenon DEF SerialInv
<1>1. ASSUME NEW i \in Tx, Step(i) PROVE StatusInv(j)' /\ ReadsDecide(j)'
  <2>1. CASE j # i
    BY <1>1, <2>1, OthersKept, SameTx, Zenon
  <2>2. CASE j = i
    <3>1. CASE Start(j)
      BY <3>1, StartStep, Zenon
    <3>2. CASE Skip(j) \/ Get(j) \/ Write(j)
      BY <3>2, RunningStep, Zenon
    <3>3. CASE WriteOut(j)
      BY <3>3, WriteOutStep, Zenon
    <3>4. CASE FinishWrite(j)
      BY <3>4, FinishWriteStep, Zenon
    <3>5. CASE StoreStep(j)
      BY <3>5, StoreStepKeeps, Zenon
    <3>6. CASE Abort(j) \/ FindStale(j) \/ Invalidate(j) \/ Retry(j)
      BY <3>6, GivenUpStep, Zenon
    <3> QED
      BY <1>1, <2>2, <3>1, <3>2, <3>3, <3>4, <3>5, <3>6, Zenon DEF Step
  <2> QED
    BY <2>1, <2>2, Zenon
<1>2. CASE Commit
  <2>1. /\ status[j] = "executed" /\ status' = status /\ pc' = pc /\ writeset' = writeset
        /\ txReadSets' = txReadSets /\ program' = program
    BY <1>2, Zenon DEF Commit, vars, callVars
  <2>2. StatusInv(j)'
    BY <2>1, Zenon DEF StatusInv
  <2>3. ReadsDecide(j)'
    BY <2>1, Zenon DEF ReadsDecide, Agrees, Overlay
  <2> QED
    BY <2>2, <2>3, Zenon
<1>3. CASE UNCHANGED allVars
  BY <1>3, SameTx, Zenon DEF allVars, blockVars, vars, callVars
<1>4. CASE Done
  BY <1>3, <1>4, Zenon DEF Done
<1> QED
  BY <1>1, <1>2, <1>3, <1>4, Zenon DEF BlockNext

\* What an incarnation does is decided by its reads, whatever the other
\* transactions publish while it runs.
THEOREM ReadsDecideWrites == BlockSpec => []SerialInv
<1>1. BlockInit => SerialInv
  <2> SUFFICES ASSUME BlockInit, NEW i \in Tx PROVE StatusInv(i) /\ ReadsDecide(i)
    BY Zenon DEF SerialInv
  <2>1. status[i] = "pending" /\ pc[i] = "idle" /\ ~committed /\ txReadSets[i] = EmptySet
    BY Zenon DEF BlockInit, Init, InitStores
  <2> QED
    BY <2>1, Zenon DEF StatusInv, ReadsDecide
<1> QED
  BY <1>1, BlockTypes, SerialStep, PTL DEF BlockSpec

------------------------------------------------------------------------------
(* The validated prefix *)

ProofInv == BlockTypeOK /\ PublishInv /\ SerialInv

\* Settled is the length of the longest prefix of the block that has finished
\* and validates.
SettledOK ==
  /\ Settled \in 0 .. N
  /\ \A i \in 0 .. (Settled - 1) : IsSettled(i)
  /\ \A n \in 0 .. N : n = Settled => n = N \/ ~IsSettled(n)

\* There is such a prefix.
LEMMA SettledExists == SettledOK
<1> DEFINE P(n) == /\ \A i \in 0 .. (n - 1) : IsSettled(i)
                   /\ n = N \/ ~IsSettled(n)
<1>1. \E n \in 0 .. N : P(n)
  <2> DEFINE S == {i \in 0 .. N : IsSettled(i)}
  <2>1. PICK n \in 0 .. N : (\A i \in 0 .. (n - 1) : i \in S) /\ (n = N \/ n \notin S)
    BY FirstOutside, Zenon
  <2> QED
    BY <2>1, Zenon
<1>2. Settled = CHOOSE n \in 0 .. N : P(n)
  BY Zenon DEF Settled
<1> HIDE DEF P
<1>3. Settled \in 0 .. N /\ P(Settled)
  BY <1>1, <1>2, Zenon
<1> QED
  BY <1>3, Zenon DEF P, SettledOK

\* The view at the first index that has not settled.
AtSettled == \A n \in 0 .. N : n = Settled => View(Settled) = View(n)

\* It is the view at that index.
LEMMA ViewAtSettled == AtSettled
BY Zenon DEF AtSettled

\* A finished transaction that validates: its versions are those its incarnation
\* wrote.
LEMMA SettledTx ==
  ASSUME Registered = Keys, ProofInv, NEW i \in Tx, status[i] = "executed"
  PROVE  /\ pc[i] = "idle"
         /\ \A k \in Keys : VersionAt(k, i) = writeset[i][k] /\ VersionAt(k, i) \in Read \cup {None}
<1>1. StatusInv(i)
  BY Zenon DEF ProofInv, SerialInv
<1>2. pc[i] = "idle" /\ \A k \in Keys : writeset[i][k] \in Read \cup {None}
  BY <1>1, Zenon DEF StatusInv
<1>3. \A k \in Keys : VersionAt(k, i) = writeset[i][k]
  BY <1>2, PublishedWhenIdle, Zenon DEF ProofInv, WritesetPublished, ShowsLastWriteset
<1> QED
  BY <1>2, <1>3, Zenon

\* The view after a finished prefix has no estimates.
LEMMA ViewType ==
  ASSUME Registered = Keys, ProofInv, NEW n \in 0 .. N,
         \A j \in 0 .. (n - 1) : status[j] = "executed"
  PROVE  View(n) \in [Keys -> Read]
<1> SUFFICES ASSUME NEW k \in Keys
             PROVE  LatestBefore(n, k) \in Read \cup {None} /\ parentStore[k] \in Read
  BY Zenon DEF View
<1>1. parentStore[k] \in Read /\ TypeOK
  BY Zenon DEF ProofInv, BlockTypeOK
<1>2. ASSUME NEW j \in WritersBefore(n, k) PROVE VersionAt(k, j) \in Read
  <2>1. j \in Tx /\ j \in 0 .. (n - 1) /\ VersionAt(k, j) # None
    BY ConstantsAssumption DEF WritersBefore, Tx
  <2> QED
    BY <2>1, SettledTx, Zenon
<1> QED
  BY <1>1, <1>2, LatestIsVersion, Zenon

\* Each transaction of the validated prefix has turned the view before it into
\* the view after it, as its program does alone.
Chain ==
  ~committed =>
    \A i \in Tx : (\A j \in 0 .. i : IsSettled(j)) => View(i + 1) = Serial!After(View(i), program[i])

\* It follows from the reads being those of the view (Validates).
LEMMA ChainHolds == Registered = Keys /\ ProofInv => Chain
<1> SUFFICES ASSUME Registered = Keys, ProofInv, ~committed, NEW i \in Tx,
                    \A j \in 0 .. i : IsSettled(j)
             PROVE  View(i + 1) = Serial!After(View(i), program[i])
  BY Zenon DEF Chain
<1>1. i \in 0 .. N /\ i \in 0 .. i /\ 0 .. i \subseteq Tx /\ 0 .. (i - 1) \subseteq 0 .. i
  BY ConstantsAssumption DEF Tx
<1>2. \A j \in 0 .. i : status[j] = "executed"
  BY Zenon DEF IsSettled
<1>3. Validates(i) /\ TypeOK /\ ReadsDecide(i) /\ status[i] = "executed"
  BY <1>1, <1>2, Zenon DEF IsSettled, ProofInv, BlockTypeOK, SerialInv
<1>4. View(i) \in [Keys -> Read]
  BY <1>1, <1>2, ViewType, Zenon
<1>5. Agrees(View(i), txReadSets[i])
  BY <1>3, Zenon DEF Agrees, Validates, Stale, OnEstimate, FreshValue, View
<1>6. Serial!After(View(i), program[i]) = Overlay(View(i), writeset[i])
  BY <1>3, <1>4, <1>5, Zenon DEF ReadsDecide
<1>7. \A k \in Keys : VersionAt(k, i) = writeset[i][k]
  BY <1>3, SettledTx, Zenon
<1>8. ASSUME NEW k \in Keys PROVE View(i + 1)[k] = Overlay(View(i), writeset[i])[k]
  BY <1>3, <1>7, LatestNext, Zenon DEF View, Overlay
<1>9. View(i + 1) = Overlay(View(i), writeset[i])
  BY <1>8, Zenon DEF View, Overlay
<1> QED
  BY <1>6, <1>9, Zenon

\* No step of the block touches a transaction that has finished and validates.
LEMMA SettledKept ==
  ASSUME Registered = Keys, ProofInv, [BlockNext]_allVars, ~committed, ~committed',
         NEW j \in Tx, IsSettled(j)
  PROVE  /\ status'[j] = "executed" /\ txReadSets'[j] = txReadSets[j]
         /\ \A k \in Keys : VersionAt(k, j)' = VersionAt(k, j)
<1>1. status[j] = "executed" /\ Validates(j) /\ BlockTypeOK /\ TypeOK /\ PublishInv
  BY Zenon DEF IsSettled, ProofInv, BlockTypeOK
<1>2. pc[j] = "idle"
  BY <1>1, SettledTx, Zenon
<1>3. \A k \in Keys : VersionAt(k, j)' = VersionAt(k, j)
  BY <1>1, <1>2, StoreAction, SlotStep, Zenon
<1>4. ASSUME NEW i \in Tx, Step(i)
      PROVE  status'[j] = "executed" /\ txReadSets'[j] = txReadSets[j]
  <2>1. CASE i # j
    BY <1>1, <1>4, <2>1, OthersKept, Zenon
  <2>2. CASE i = j
    <3>1. ~Start(j) /\ ~Skip(j) /\ ~Get(j) /\ ~Write(j) /\ ~Abort(j) /\ ~WriteOut(j)
      BY <1>1, Zenon DEF Start, Skip, Get, Write, Abort, WriteOut, Running
    <3>2. ~FinishWrite(j) /\ ~Invalidate(j) /\ ~Retry(j)
      BY <1>1, Zenon DEF FinishWrite, Invalidate, Retry
    <3>3. ~StoreStep(j)
      BY <1>1, <1>2, ProceedFrame, Zenon DEF StoreStep
    <3>4. ~FindStale(j)
      BY <1>1, Zenon DEF FindStale, Validates
    <3> QED
      BY <1>4, <2>2, <3>1, <3>2, <3>3, <3>4, Zenon DEF Step
  <2> QED
    BY <2>1, <2>2, Zenon
<1>5. ASSUME UNCHANGED allVars
      PROVE  status'[j] = "executed" /\ txReadSets'[j] = txReadSets[j]
  BY <1>1, <1>5, Zenon DEF allVars, blockVars
<1> QED
  BY <1>3, <1>4, <1>5, <1>1, Zenon DEF BlockNext, Commit, Done

\* The block goes on and is not committed: the other variables of the serial
\* execution.
LEMMA ParentKept ==
  ASSUME BlockTypeOK, [BlockNext]_allVars, ~committed, ~committed'
  PROVE  parentStore' = parentStore /\ program' = program
<1>1. ASSUME NEW i \in Tx, Step(i) PROVE parentStore' = parentStore /\ program' = program
  BY <1>1, Zenon DEF Step, Start, Skip, Get, Write, Abort, AbortOn, WriteOut, FinishWrite, StoreStep,
              FindStale, Invalidate, Retry, blockVars
<1>2. CASE UNCHANGED allVars
  BY <1>2, Zenon DEF allVars, blockVars
<1> QED
  BY <1>1, <1>2, Zenon DEF BlockNext, Commit, Done

\* What has settled stays settled, and so does what it has left.
LEMMA PrefixKept ==
  ASSUME Registered = Keys, ProofInv, [BlockNext]_allVars, ~committed, ~committed',
         NEW n \in 0 .. N, \A i \in 0 .. (n - 1) : IsSettled(i)
  PROVE  (\A i \in 0 .. (n - 1) : IsSettled(i)') /\ View(n)' = View(n)
<1>1. 0 .. (n - 1) \subseteq Tx /\ \A i \in Tx : i < n => i \in 0 .. (n - 1)
  BY ConstantsAssumption DEF Tx
<1>2. parentStore' = parentStore
  BY ParentKept, Zenon DEF ProofInv
<1>3. ASSUME NEW i \in 0 .. n, NEW k \in Keys PROVE LatestBefore(i, k)' = LatestBefore(i, k)
  <2>1. i \in 0 .. N
    BY ConstantsAssumption
  <2>2. ASSUME NEW j \in Tx, j < i PROVE VersionAt(k, j)' = VersionAt(k, j)
    <3>1. j \in 0 .. (n - 1)
      BY <2>2 DEF Tx
    <3> QED
      BY <3>1, SettledKept, Zenon
  <2> QED
    BY <2>1, <2>2, LatestSame, Zenon
<1>4. View(n)' = View(n)
  <2>1. n \in 0 .. n
    BY ConstantsAssumption
  <2> QED
    BY <1>2, <1>3, <2>1, Zenon DEF View
<1>5. ASSUME NEW i \in 0 .. (n - 1) PROVE IsSettled(i)'
  <2>1. i \in 0 .. n /\ i \in Tx /\ IsSettled(i) /\ status[i] = "executed" /\ Validates(i)
    BY <1>1 DEF IsSettled
  <2>2. status'[i] = "executed" /\ txReadSets'[i] = txReadSets[i]
    BY <2>1, SettledKept, Zenon
  <2>3. \A k \in Keys : LatestBefore(i, k)' = LatestBefore(i, k)
    BY <1>3, <2>1, Zenon
  <2>4. Validates(i)'
    BY <1>2, <2>1, <2>2, <2>3, Zenon DEF Validates, Stale, OnEstimate, FreshValue
  <2> QED
    BY <2>2, <2>4, Zenon DEF IsSettled
<1> QED
  BY <1>4, <1>5, Zenon

------------------------------------------------------------------------------
(* The refinement *)

\* A step before the commit settles the next transactions, or none.
LEMMA SettleStep ==
  ASSUME Registered = Keys, ProofInv, SettledOK, SettledOK', AtSettled, AtSettled', Chain',
         [BlockNext]_allVars, ~committed, ~committed'
  PROVE  [Serial!Next]_(Serial!vars)
<1>1. PICK n \in 0 .. N : n = Settled
  BY Zenon DEF SettledOK
<1>2. PICK m \in 0 .. N : m = Settled'
  BY Zenon DEF SettledOK
<1> N \in Nat /\ Tx = 0 .. (N - 1)
  BY ConstantsAssumption, Zenon DEF Tx
<1>3. /\ \A i \in 0 .. (n - 1) : IsSettled(i)
      /\ \A i \in 0 .. (m - 1) : IsSettled(i)'
      /\ m = N \/ ~IsSettled(m)'
  <2>1. \A i \in 0 .. (n - 1) : IsSettled(i)
    BY <1>1, Zenon DEF SettledOK
  <2>2. \A i \in 0 .. (m - 1) : IsSettled(i)'
    BY <1>2, Zenon DEF SettledOK
  <2>3. m = N \/ ~IsSettled(m)'
    BY <1>2, Zenon DEF SettledOK
  <2> QED
    BY <2>1, <2>2, <2>3, Zenon
<1>4. (\A i \in 0 .. (n - 1) : IsSettled(i)') /\ View(n)' = View(n)
  BY <1>3, PrefixKept, Zenon
<1>5. n <= m
  BY <1>3, <1>4
<1>6. parentStore' = parentStore /\ program' = program
  BY ParentKept, Zenon DEF ProofInv
<1>7. View(Settled) = View(n) /\ (View(Settled))' = View(m)'
  BY <1>1, <1>2, Zenon DEF AtSettled
<1>8. CASE n = m
  BY <1>1, <1>2, <1>4, <1>6, <1>7, <1>8, Zenon DEF Serial!vars
<1>9. CASE n # m
  <2> DEFINE V == [i \in 0 .. N |-> View(i)']
  <2>1. ASSUME NEW i \in n .. (m - 1) PROVE V[i + 1] = Serial!After(V[i], program[i])
    <3>1. i \in Tx /\ i \in 0 .. N /\ i + 1 \in 0 .. N /\ 0 .. i \subseteq 0 .. (m - 1)
      OBVIOUS
    <3>2. View(i + 1)' = Serial!After(View(i)', program'[i])
      BY <1>3, <3>1, Zenon DEF Chain
    <3> QED
      BY <1>6, <3>1, <3>2, Zenon
  <2>2. V[n] = View(n) /\ V[m] = View(m)'
    BY <1>4, Zenon
  <2> HIDE DEF V
  <2>3. n \in Nat /\ m \in Nat
    OBVIOUS
  <2>4. Serial!RunSerially(V[n], n, m) = V[m]
    BY <1>5, <2>1, <2>3, SerialChain, Zenon
  <2>5. Serial!Settle
    BY <1>1, <1>2, <1>5, <1>6, <1>7, <1>9, <2>2, <2>4 DEF Serial!Settle
  <2> QED
    BY <2>5, Zenon DEF Serial!Next
<1> QED
  BY <1>8, <1>9, Zenon

\* The commit writes what the whole block has left.
LEMMA CommitStep ==
  ASSUME Registered = Keys, ProofInv, SettledOK, SettledOK', AtSettled, AtSettled', Commit
  PROVE  Serial!Commit
<1> N \in Nat /\ Tx = 0 .. (N - 1) /\ N \in 0 .. N /\ TypeOK
  BY ConstantsAssumption DEF Tx, ProofInv, BlockTypeOK
<1>1. /\ \A i \in Tx : IsSettled(i) /\ status[i] = "executed"
      /\ committed' /\ program' = program /\ UNCHANGED vars
  BY Zenon DEF Commit, IsSettled
<1>2. Settled = N
  BY <1>1 DEF SettledOK
<1>3. Settled' = N
  BY <1>1, Zenon DEF SettledOK, IsSettled
<1>4. \A k \in Keys : LatestBefore(N, k)' = LatestBefore(N, k)
  BY <1>1, LatestSame, Zenon DEF VersionAt, vars, storeVars
<1>5. ASSUME NEW k \in Keys PROVE GetLatestNonEstimate(k) = LatestBefore(N, k)
  <2>1. \A j \in Tx : VersionAt(k, j) # Estimate /\ j < N
    BY <1>1, SettledTx, Reads, ConstantsAssumption
  <2>2. {j \in Tx : VersionAt(k, j) \notin {None, Estimate}} = WritersBefore(N, k)
    BY <2>1, Zenon DEF WritersBefore
  <2> QED
    BY <2>2, LatestIsVersion, Zenon DEF GetLatestNonEstimate
<1>6. parentStore' = View(N)
  BY <1>5, Zenon DEF Commit, WriteLatestToStore, View
<1>7. View(N)' = View(N)
  BY <1>4, <1>6, Zenon DEF View
<1>8. View(Settled) = View(N) /\ (View(Settled))' = View(N)'
  BY <1>2, <1>3, Zenon DEF AtSettled
<1> QED
  BY <1>1, <1>2, <1>3, <1>6, <1>7, <1>8, Zenon DEF Serial!Commit

\* Nothing happens once the block is committed.
LEMMA AfterCommit ==
  ASSUME ProofInv, [BlockNext]_allVars, committed
  PROVE  UNCHANGED allVars
<1>1. \A i \in Tx : status[i] = "executed" /\ pc[i] = "idle"
  BY Zenon DEF ProofInv, SerialInv, StatusInv
<1>2. ASSUME NEW i \in Tx PROVE ~Step(i)
  <2>1. ~Start(i) /\ ~Skip(i) /\ ~Get(i) /\ ~Write(i) /\ ~Abort(i) /\ ~WriteOut(i)
    BY <1>1, Zenon DEF Start, Skip, Get, Write, Abort, WriteOut, Running
  <2>2. ~FinishWrite(i) /\ ~Invalidate(i) /\ ~Retry(i) /\ ~FindStale(i)
    BY <1>1, Zenon DEF FinishWrite, Invalidate, Retry, FindStale
  <2>3. ~StoreStep(i)
    BY <1>1, ProceedFrame, Zenon DEF StoreStep, ProofInv, BlockTypeOK
  <2> QED
    BY <2>1, <2>2, <2>3, Zenon DEF Step
<1> QED
  BY <1>2, Zenon DEF BlockNext, Commit, Done

\* A step of the committed block changes nothing of the serial execution.
LEMMA CommittedStep ==
  ASSUME ProofInv, SettledOK, SettledOK', AtSettled, AtSettled', [BlockNext]_allVars, committed
  PROVE  UNCHANGED Serial!vars
<1>1. UNCHANGED allVars
  BY AfterCommit, Zenon
<1>2. /\ N \in 0 .. N /\ committed' /\ parentStore' = parentStore /\ program' = program
      /\ multiVersionMap' = multiVersionMap /\ items' = items
  BY <1>1, ConstantsAssumption DEF allVars, blockVars, vars, storeVars
<1>3. Settled = N /\ Settled' = N
  BY <1>2, Zenon DEF SettledOK, IsSettled
<1>4. View(N)' = View(N)
  <2>1. \A k \in Keys : LatestBefore(N, k)' = LatestBefore(N, k)
    BY <1>2, LatestSame, Zenon DEF VersionAt
  <2> QED
    BY <1>2, <2>1, Zenon DEF View
<1>5. View(Settled) = View(N) /\ (View(Settled))' = View(N)'
  BY <1>2, <1>3, Zenon DEF AtSettled
<1> QED
  BY <1>2, <1>3, <1>4, <1>5, Zenon DEF Serial!vars

\* At first nothing has settled and the view is the parent store.
LEMMA SerialInit == BlockInit /\ BlockTypeOK /\ SettledOK /\ AtSettled => Serial!Init
<1> SUFFICES ASSUME BlockInit, BlockTypeOK, SettledOK, AtSettled PROVE Serial!Init
  OBVIOUS
<1>1. N \in Nat /\ Tx = 0 .. (N - 1) /\ 0 \in 0 .. N
  BY ConstantsAssumption DEF Tx
<1>2. \A i \in Tx : ~IsSettled(i)
  BY Zenon DEF BlockInit, IsSettled
<1>3. Settled = 0
  BY <1>1, <1>2 DEF SettledOK
<1>4. \A k \in Keys : LatestBefore(0, k) = None
  <2>1. \A k \in Keys : WritersBefore(0, k) = {}
    BY <1>1 DEF WritersBefore
  <2> QED
    BY <1>1, <2>1, LatestIsVersion, Zenon DEF BlockTypeOK
<1>5. View(0) = parentStore /\ parentStore \in [Keys -> Read]
  BY <1>4, Zenon DEF View, BlockTypeOK
<1>6. View(Settled) = parentStore
  BY <1>1, <1>3, <1>5, Zenon DEF AtSettled
<1>7. program \in [0 .. (N - 1) -> Seq(Serial!Instructions)]
  BY <1>1, BlocksAssumption, Zenon DEF BlockInit
<1> QED
  BY <1>3, <1>5, <1>6, <1>7, Zenon DEF Serial!Init, Read

\* Parallel execution is serial.  Whatever the transactions read and write,
\* however their incarnations, the calls on the multiversion store, the
\* validations and the invalidations are interleaved: what validates takes
\* effect in the order of the indices, and the parent store gets what running
\* the transactions one after the other leaves, if NewKey has registered all keys.
THEOREM ParallelIsSerial == Registered = Keys => (BlockSpec => IsSerial)
<1> SUFFICES ASSUME Registered = Keys PROVE BlockSpec => IsSerial
  OBVIOUS
<1>1. ProofInv /\ SettledOK /\ SettledOK' /\ AtSettled /\ AtSettled' /\ Chain'
        /\ [BlockNext]_allVars => [Serial!Next]_(Serial!vars)
  <2> SUFFICES ASSUME ProofInv, SettledOK, SettledOK', AtSettled, AtSettled', Chain',
                      [BlockNext]_allVars
               PROVE  [Serial!Next]_(Serial!vars)
    OBVIOUS
  <2>1. CASE committed
    BY <2>1, CommittedStep, Zenon
  <2>2. CASE ~committed /\ ~committed'
    BY <2>2, SettleStep, Zenon
  <2>3. CASE ~committed /\ committed'
    <3>1. ASSUME NEW i \in Tx, Step(i) PROVE committed' = committed
      BY <3>1, Zenon DEF Step, Start, Skip, Get, Write, Abort, AbortOn, WriteOut, FinishWrite,
                  StoreStep, FindStale, Invalidate, Retry, blockVars
    <3>2. Commit
      BY <2>3, <3>1, Zenon DEF BlockNext, Done, allVars, blockVars
    <3> QED
      BY <3>2, CommitStep, Zenon DEF Serial!Next
  <2> QED
    BY <2>1, <2>2, <2>3, Zenon
<1>2. BlockSpec => []ProofInv
  BY BlockTypes, BlockUsesStore, PublishInvariant, ReadsDecideWrites, PTL DEF ProofInv
<1>3. ProofInv => Chain
  BY ChainHolds, Zenon
<1>4. BlockInit /\ BlockTypeOK /\ SettledOK /\ AtSettled => Serial!Init
  BY SerialInit, Zenon
<1>5. SettledOK /\ AtSettled
  BY SettledExists, ViewAtSettled, Zenon
<1> QED
  BY <1>1, <1>2, <1>3, <1>4, <1>5, BlockTypes, PTL DEF BlockSpec, IsSerial, Serial!Spec
==============================================================================
