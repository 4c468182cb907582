---------------------------- MODULE MCAccountLock ----------------------------
(* Instances of AccountLock for TLC: the constants are given in the .cfg files. *)
EXTENDS AccountLock, TLC, Combinatorics

\* How many profiles there are, as Pascal's triangle has it.
ASSUME CountOfProfiles ==
    \A n \in 1 .. 6, P \in SUBSET Proc :
        LostUpdates(P, n) = choose(n + Cardinality(P) - 1, Cardinality(P)) - 1

\* Requests are interchangeable.
Symmetry == Permutations(Proc)
=============================================================================
