----------------------------- MODULE MCSharing -----------------------------
EXTENDS Sharing, TLC
MCSymmetry == Permutations(Threads)
=============================================================================
