--------------------------- MODULE MCAddressBlock ---------------------------
(* Instances of AddressBlock for TLC: the constants are given in the .cfg files. *)
EXTENDS AddressBlock
=============================================================================
