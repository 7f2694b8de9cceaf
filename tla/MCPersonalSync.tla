--------------------------- MODULE MCPersonalSync ---------------------------
(* PersonalSync on small instances, for TLC.                               *)
EXTENDS PersonalSync, TLC

Symmetry == Permutations(V)

(* Values of MaxSeq: an announcement each, and two changes or three.       *)
ThreeFour == <<3, 4>>
FourThree == <<4, 3>>
=============================================================================
