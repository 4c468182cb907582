----------------------------- MODULE MCSessions -----------------------------
(* Instances of Sessions for TLC: the constants are given in the .cfg files. *)
EXTENDS Sessions, TLC

\* Requests are interchangeable; ids are not, Before orders them.
Symmetry == Permutations(Proc)
=============================================================================
