----------------------------- MODULE MCRootMulti -----------------------------
(* Three stores, of which an upgrade renames one and deletes one, while it  *)
(* adds another; a later block adds one more.                               *)
EXTENDS RootMulti, TLC

OneRename == 4 :> 2
==============================================================================
