------------------------- MODULE MCInformerManager -------------------------
(* Instances of InformerManager for TLC.  The scale targets play the same  *)
(* role, so that it does not matter which one the ElastiService names at   *)
(* first.                                                                  *)
EXTENDS InformerManager

FirstRef == CHOOSE r \in Refs : TRUE
MCInit == Init /\ es.ref = FirstRef
MCFairSpec == MCInit /\ [][Next]_vars /\ Fairness
=============================================================================
