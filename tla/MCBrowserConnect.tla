--------------------------- MODULE MCBrowserConnect ---------------------------
(* BrowserConnect on small instances, for TLC: unlocks, vaults, requests   *)
(* and the keys that browsers send are alike.                              *)
EXTENDS BrowserConnect, TLC

Symmetry == Permutations(Requests) \cup Permutations(Keys) \cup Permutations(Vaults) \cup Permutations(Tokens)
=============================================================================
