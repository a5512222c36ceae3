-------------------------- MODULE MCSnapshotRestore --------------------------
(* The snapshot restore for TLC.  In a behaviour there are the faults of the *)
(* data, or one of the faults of the file system, the database or of an      *)
(* extension.                                                                *)
EXTENDS SnapshotRestore

MCFaultSets == {{"load", "header", "apply", "extension"}} \cup
               {{f} : f \in {"mkdir", "write", "partial", "record"}}
==============================================================================
