--------------------------- MODULE MCHostManager ---------------------------
(* Instances of HostManager for TLC. *)
EXTENDS HostManager, TLC
Perms == Permutations(Requests)
=============================================================================
