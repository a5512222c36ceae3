---------------------------- MODULE AtomicCommits ----------------------------
(***************************************************************************)
(* What a committing multi-store promises: a list of versions, each with   *)
(* the contents of its stores, to which a block adds the next one, whole   *)
(* or not at all, and which a rollback cuts.                               *)
(*                                                                         *)
(* The contents of a store are the heights of the blocks that wrote to it. *)
(***************************************************************************)
EXTENDS Integers, Sequences, FiniteSets

CONSTANTS
  First,       \* the names of the stores of the first binary
  UpgradeAt,   \* the last version of the first binary
  Added,       \* stores the second binary adds,
  Deleted,     \* deletes,
  Renamed,     \* and renames: new name -> old name
  Initial,     \* the initial version, 0 if none is set
  Dynamic,     \* the stores added by the block DynamicAt
  DynamicAt

VARIABLES
  versions,    \* version -> name -> contents; 0 has empty stores
  latest       \* the last version

acVars == <<versions, latest>>

Second == (First \ (Deleted \cup {Renamed[n] : n \in DOMAIN Renamed})) \cup Added \cup DOMAIN Renamed

\* The stores after the upgrade, before the block that follows it is run.
Upgraded(stores) ==
  [n \in Second \cup (DOMAIN stores \cap Dynamic) |->
                    IF n \in DOMAIN Renamed THEN stores[Renamed[n]]
                    ELSE IF n \in Added THEN <<>> ELSE stores[n]]

\* A block writes to every store, also to those it adds.
Run(stores, v) ==
  [n \in DOMAIN stores \cup (IF v = DynamicAt THEN Dynamic ELSE {}) |->
     IF n \in DOMAIN stores THEN Append(stores[n], v) ELSE <<v>>]

\* Version v + 1 when the stores of version v are those given.
After(stores, v) ==
  LET next == IF v = 0 /\ Initial > 1 THEN Initial ELSE v + 1
  IN  [version |-> next, stores |-> Run(IF v = UpgradeAt THEN Upgraded(stores) ELSE stores, next)]

Init ==
  /\ latest = 0
  /\ versions = [v \in {0} |-> [n \in First |-> <<>>]]

Commit ==
  LET a == After(versions[latest], latest) IN
  /\ latest' = a.version
  /\ versions' = [v \in DOMAIN versions \cup {a.version} |->
                    IF v = a.version THEN a.stores ELSE versions[v]]

RollbackToVersion(target) ==
  /\ target \in DOMAIN versions \ {0} /\ target < latest
  /\ latest' = target
  /\ versions' = [v \in {w \in DOMAIN versions : w <= target} |-> versions[v]]

Next == Commit \/ \E target \in DOMAIN versions : RollbackToVersion(target)

Spec == Init /\ [][Next]_acVars
==============================================================================
