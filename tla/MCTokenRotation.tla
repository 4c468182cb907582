--------------------------- MODULE MCTokenRotation ---------------------------
(* Instances of TokenRotation for TLC: the constants are given in the .cfg files. *)
EXTENDS TokenRotation, TLC

\* Requests are interchangeable, and so are families.
Symmetry == Permutations(Proc) \cup Permutations(Family)
=============================================================================
