--------------------------- MODULE MCSyncPreview ---------------------------
(* SyncPreview on small instances, for TLC.                                *)
EXTENDS SyncPreview, TLC

Symmetry == Permutations(Content) \cup Permutations(S)

(* Everything in both directions.                                          *)
Both == {[sources |-> S, pull |-> TRUE, push |-> TRUE]}
=============================================================================
