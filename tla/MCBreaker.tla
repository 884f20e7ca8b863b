----------------------------- MODULE MCBreaker -----------------------------
(* Instances of Breaker for TLC.  The calls of an instance are all there   *)
(* are, so the slots may start with one that two earlier calls, returned   *)
(* since, have leaked (run Breaker_leak shows how): with it as many calls  *)
(* as there are slots fill the breaker and one is turned away.             *)
EXTENDS Breaker

MCInit ==
  /\ SemInit
  /\ inFlight \in 0..1
  /\ at = [c \in Calls |-> "new"]
  /\ cur = [c \in Calls |-> 0]

MCFairSpec == MCInit /\ [][Next]_vars /\ \A c \in Calls : WF_vars(Progress(c))
=============================================================================
