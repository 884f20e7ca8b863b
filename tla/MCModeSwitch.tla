---------------------------- MODULE MCModeSwitch ----------------------------
(* Small instances of ModeSwitch for TLC.                                  *)
EXTENDS ModeSwitch

CONSTANTS a, b
TwoIPs == {a, b}
OneIP == {a}
=============================================================================
