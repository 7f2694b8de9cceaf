-------------------------- MODULE MCAtomicStorage --------------------------
(* AtomicStorage on small instances, for TLC.                              *)
EXTENDS AtomicStorage, TLC

Symmetry == Permutations(W) \cup Permutations(Data)
=============================================================================
