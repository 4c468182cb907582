---------------------------- MODULE MCAuditChain ----------------------------
(* Instances of AuditChain for TLC: the constants are given in the .cfg files. *)
EXTENDS AuditChain, TLC

\* Writers are interchangeable.
Symmetry == Permutations(Proc)
=============================================================================
