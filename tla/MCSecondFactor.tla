--------------------------- MODULE MCSecondFactor ---------------------------
(* Instances of SecondFactor for TLC: the constants are given in the .cfg files. *)
EXTENDS SecondFactor, TLC

\* Requests, secrets and rows are interchangeable.
Symmetry ==
    Permutations(Proc) \cup Permutations(Secret)
        \cup Permutations(Device)
=============================================================================
