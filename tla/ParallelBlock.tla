---------------------------- MODULE ParallelBlock ----------------------------
(***************************************************************************)
(* The transactions of a block run in parallel on VersionIndexedStores     *)
(* over one multiversion.Store.                                            *)
(*                                                                         *)
(* The scheduler that drives them is not part of the repository.  The one  *)
(* here is the most liberal that uses the stores as they ask for: it runs  *)
(* one incarnation of an index at a time; on an abort it publishes the     *)
(* writes as estimates and waits for the index the abort names; it         *)
(* validates any finished transaction at any time, one key of the readset  *)
(* after the other; it invalidates and runs again those that fail; and it  *)
(* writes the block out when every transaction has finished and validates. *)
(***************************************************************************)
EXTENDS VersionIndexedStore, Sequences

CONSTANTS
  Blocks,      \* the blocks: functions from Tx to programs
  Parents      \* the contents of the parent store at the start

VARIABLES
  program,     \* index -> its instructions (SerialBlock)
  status,      \* index -> where it stands with the scheduler
  ip, acc,     \* index -> next instruction and register of the incarnation
  dep,         \* index -> the index its abort names (DependentTxIdx), or None
  committed    \* the block has been written to the parent store

execVars == <<ip, acc, dep>>
blockVars == <<program, status, ip, acc, dep, committed, parentStore, readset,
               Writeset, txReadSets>>
allVars == <<vars, blockVars>>

BlockInit ==
  /\ Init
  /\ \E s \in Parents : InitStores(s)
  /\ program \in Blocks
  /\ status = [i \in Tx |-> "pending"]
  /\ ip = [i \in Tx |-> 1]
  /\ acc = [i \in Tx |-> Nil]
  /\ dep = [i \in Tx |-> None]
  /\ committed = FALSE

------------------------------------------------------------------------------
(* One incarnation *)

\* An aborted index waits until the one it depends on has finished again.
Start(i) ==
  /\ pc[i] = "idle"
  /\ \/ status[i] = "pending"
     \/ status[i] = "aborted" /\ status[dep[i]] = "executed"
  /\ status' = [status EXCEPT ![i] = "running"]
  /\ ip' = [ip EXCEPT ![i] = 1]
  /\ acc' = [acc EXCEPT ![i] = Nil]
  /\ dep' = [dep EXCEPT ![i] = None]
  /\ NewVersionIndexedStore(i)
  /\ UNCHANGED <<vars, program, committed, parentStore, txReadSets>>

Running(i) == status[i] = "running" /\ ip[i] <= Len(program[i])
Ins(i) == program[i][ip[i]]
Advance(i) == ip' = [ip EXCEPT ![i] = @ + 1]

Skip(i) ==
  /\ Running(i)
  /\ acc[i] \notin Ins(i).when
  /\ Advance(i)
  /\ UNCHANGED <<vars, mvkvVars, program, status, acc, dep, committed, parentStore, txReadSets>>

Get(i) ==
  /\ Running(i)
  /\ acc[i] \in Ins(i).when /\ Ins(i).op = "get"
  /\ ~GetAborts(i, Ins(i).key)
  /\ acc' = [acc EXCEPT ![i] = GetValue(i, Ins(i).key)]
  /\ UpdateReadSet(i, Ins(i).key)
  /\ Advance(i)
  /\ UNCHANGED <<vars, Writeset, program, status, dep, committed, parentStore, txReadSets>>

Write(i) ==
  /\ Running(i)
  /\ acc[i] \in Ins(i).when /\ Ins(i).op \in {"set", "delete"}
  /\ setValue(i, Ins(i).key, IF Ins(i).op = "set" THEN Ins(i).val[acc[i]] ELSE Nil)
  /\ Advance(i)
  /\ UNCHANGED <<vars, readset, program, status, acc, dep, committed, parentStore, txReadSets>>

\* Get panics with an abort: the writes so far become estimates.
AbortOn(i, k) ==
  /\ GetAborts(i, k)
  /\ dep' = [dep EXCEPT ![i] = GetLatestBeforeIndex(i, k)]
  /\ status' = [status EXCEPT ![i] = "aborted"]
  /\ WriteEstimatesToMultiVersionStore(i)
  /\ NewVersionIndexedStore(i)
  /\ UNCHANGED <<program, ip, acc, committed, parentStore, txReadSets>>

Abort(i) ==
  /\ Running(i)
  /\ acc[i] \in Ins(i).when /\ Ins(i).op = "get"
  /\ AbortOn(i, Ins(i).key)

\* The program is over: WriteToMultiVersionStore.
WriteOut(i) ==
  /\ status[i] = "running" /\ ip[i] > Len(program[i])
  /\ status' = [status EXCEPT ![i] = "writing"]
  /\ WriteToMultiVersionStore(i)
  /\ UNCHANGED <<execVars, mvkvVars, program, committed, parentStore, txReadSets>>

FinishWrite(i) ==
  /\ status[i] = "writing" /\ pc[i] = "idle"
  /\ status' = [status EXCEPT ![i] = "executed"]
  /\ SetReadset(i)
  /\ NewVersionIndexedStore(i)
  /\ acc' = [acc EXCEPT ![i] = Nil]
  /\ ip' = [ip EXCEPT ![i] = 1]
  /\ UNCHANGED <<vars, program, dep, committed, parentStore>>

\* The steps of the call under way on the multiversion store.
StoreStep(i) == Proceed(i) /\ UNCHANGED blockVars

------------------------------------------------------------------------------
(* Validation and commit *)

\* ValidateTransactionState meets a stale key: the transaction is invalid.
FindStale(i) ==
  /\ ~committed
  /\ status[i] = "executed"
  /\ \E k \in Keys : Stale(i, k)
  /\ status' = [status EXCEPT ![i] = "invalid"]
  /\ UNCHANGED <<vars, execVars, mvkvVars, program, committed, parentStore, txReadSets>>

Invalidate(i) ==
  /\ status[i] = "invalid"
  /\ status' = [status EXCEPT ![i] = "invalidating"]
  /\ InvalidateWriteset(i)
  /\ UNCHANGED <<execVars, mvkvVars, program, committed, parentStore, txReadSets>>

Retry(i) ==
  /\ status[i] = "invalidating" /\ pc[i] = "idle"
  /\ status' = [status EXCEPT ![i] = "pending"]
  /\ ClearReadset(i)
  /\ UNCHANGED <<vars, execVars, mvkvVars, program, committed, parentStore>>

Commit ==
  /\ ~committed
  /\ \A i \in Tx : status[i] = "executed" /\ Validates(i)
  /\ committed' = TRUE
  /\ WriteLatestToStore
  /\ UNCHANGED <<vars, execVars, mvkvVars, program, status, txReadSets>>

Done == committed /\ UNCHANGED allVars

Step(i) ==
  \/ Start(i) \/ Skip(i) \/ Get(i) \/ Write(i) \/ Abort(i)
  \/ WriteOut(i) \/ FinishWrite(i) \/ StoreStep(i)
  \/ FindStale(i) \/ Invalidate(i) \/ Retry(i)

BlockNext == (\E i \in Tx : Step(i)) \/ Commit \/ Done

BlockSpec == BlockInit /\ [][BlockNext]_allVars

------------------------------------------------------------------------------
(* Properties *)

BlockTypeOK ==
  /\ TypeOK
  /\ parentStore \in [Keys -> Read]
  /\ readset \in [Tx -> [Keys -> Read \cup {None}]]
  /\ Writeset \in [Tx -> [Keys -> Read \cup {None}]]
  /\ txReadSets \in [Tx -> [Keys -> Read \cup {None}]]
  /\ status \in [Tx -> {"pending", "running", "aborted", "writing", "executed",
                        "invalid", "invalidating"}]
  /\ program \in Blocks
  /\ ip \in [Tx -> Nat]
  /\ \A i \in Tx : ip[i] \in 1 .. (Len(program[i]) + 1)
  /\ acc \in [Tx -> Read]
  /\ dep \in [Tx -> Tx \cup {None}]
  /\ committed \in BOOLEAN

\* A transaction that has finished and validates; the first that has not.
IsSettled(i) == committed \/ (status[i] = "executed" /\ Validates(i))

Settled ==
  CHOOSE n \in 0 .. N :
    /\ \A i \in 0 .. (n - 1) : IsSettled(i)
    /\ n = N \/ ~IsSettled(n)

\* What the transactions below n have left.
View(n) ==
  [k \in Keys |-> IF LatestBefore(n, k) = None THEN parentStore[k] ELSE LatestBefore(n, k)]

Serial == INSTANCE SerialBlock
  WITH settled <- Settled, store <- View(Settled), parent <- parentStore

\* Parallel execution implements serial execution: the validated prefix of the
\* block only grows, at every moment it has left what running its transactions
\* one after the other leaves, and the parent store gets exactly the result of
\* the whole block.
IsSerial == Serial!Spec

\* The block ends: no abort, wait or invalidation goes on for ever.
Terminates == <>committed

------------------------------------------------------------------------------
(* The invariant the proofs rest on *)

\* What the serial execution assumes of the blocks and of the parent store.
ASSUME BlocksAssumption ==
  /\ Blocks \subseteq [Tx -> Seq(Serial!Instructions)]
  /\ Parents \subseteq [Keys -> Read]

\* A store with the writes w on it; a store in which the reads r find what they
\* found.
Overlay(s, w) == [k \in Keys |-> IF w[k] = None THEN s[k] ELSE w[k]]

Agrees(s, r) == \A k \in Keys : r[k] # None => s[k] = r[k]

\* Where the call made for i stands with the scheduler, the version that is
\* published being that of the incarnation that finished; a readset is stored
\* only while it is.
StatusInv(i) ==
  /\ status[i] \in {"pending", "running", "executed", "invalid"} => pc[i] = "idle"
  /\ status[i] \in {"writing", "executed", "invalid"} =>
       \A k \in Keys : writeset[i][k] \in Read \cup {None}
  /\ status[i] = "writing" => writeset[i] = Writeset[i]
  /\ status[i] \notin {"executed", "invalid", "invalidating"} => txReadSets[i] = EmptySet
  /\ committed => status[i] = "executed"

\* What an incarnation has done so far, and what it has left in the end, is what
\* its program does alone on any store in which its reads find what they found.
ReadsDecide(i) ==
  \A s \in [Keys -> Read] :
    /\ status[i] = "running" /\ Agrees(s, readset[i]) =>
         Serial!Run(s, program[i])[ip[i] - 1] = [store |-> Overlay(s, Writeset[i]), acc |-> acc[i]]
    /\ status[i] = "writing" /\ Agrees(s, readset[i]) =>
         Serial!After(s, program[i]) = Overlay(s, writeset[i])
    /\ status[i] = "executed" /\ Agrees(s, txReadSets[i]) =>
         Serial!After(s, program[i]) = Overlay(s, writeset[i])

\* Why IsSerial holds: the incarnations of all transactions are determined by
\* their reads, and only a finished one has its writes published.
SerialInv == \A i \in Tx : StatusInv(i) /\ ReadsDecide(i)
==============================================================================
