---------------------------- MODULE MCVaultFile ----------------------------
EXTENDS VaultFile, TLC

(* Processes run the same code: any two may be exchanged.                  *)
Symmetry == Permutations(P)
=============================================================================
