---------------------------- MODULE MCThrottler ----------------------------
(* Instances of Throttler for TLC. *)
EXTENDS Throttler, TLC

OneService(r) == "web"
EachService(r) == r
Symmetry == Permutations(Requests)
=============================================================================
