--------------------------- MODULE MCRegistration ---------------------------
(* Instances of Registration for TLC: the constants are given in the .cfg files. *)
EXTENDS Registration, TLC

\* Requests and tokens are interchangeable.
Symmetry == Permutations(Proc) \cup Permutations(Token)
=============================================================================
