----------------------------- MODULE MCLoginRisk -----------------------------
(* Instances of LoginRisk for TLC: the constants are given in the .cfg files. *)
EXTENDS LoginRisk, TLC

\* Logins and places are interchangeable.
Symmetry == Permutations(Proc) \cup Permutations(Place)
=============================================================================
