------------------------ MODULE MCReviewedChanges ------------------------
EXTENDS ReviewedChanges, TLC
MCSymmetry == Permutations(Tokens) \cup Permutations(Requests)
=============================================================================
