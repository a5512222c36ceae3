------------------------- MODULE MCMultiVersionStore -------------------------
(* Two transactions and two keys, one of them registered before the block. *)
EXTENDS MultiVersionStore, TLC

CONSTANTS k1, k2, v1

MCKeys == {k1, k2}
MCRegistered == {k1}
MCValues == {v1}
==============================================================================
