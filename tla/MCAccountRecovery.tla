-------------------------- MODULE MCAccountRecovery --------------------------
(* Instances of AccountRecovery for TLC: the constants are given in the .cfg files. *)
EXTENDS AccountRecovery, TLC

\* Requests, passwords, links and session ids are interchangeable.
Symmetry ==
    Permutations(Proc) \cup Permutations(Password) \cup Permutations(Link)
    \cup Permutations(Session)
=============================================================================
