-------------------------- MODULE MCPasskeyRequests --------------------------
(***************************************************************************)
(* PasskeyRequests for TLC: the threads of two approvals are alike, as are *)
(* two browser tokens.                                                     *)
(***************************************************************************)
EXTENDS PasskeyRequests, TLC

Symmetry == Permutations(Browsers) \cup Permutations(Approvals) \cup Permutations(Tokens)
=============================================================================
