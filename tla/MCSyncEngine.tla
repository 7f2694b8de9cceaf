---------------------------- MODULE MCSyncEngine ----------------------------
(* SyncEngine on small instances, for TLC.                                 *)
EXTENDS SyncEngine, TLC

Symmetry == Permutations(Content)
=============================================================================
