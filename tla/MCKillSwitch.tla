---------------------------- MODULE MCKillSwitch ----------------------------
(* Instances of KillSwitch for TLC: one thread that issues commands, or two, *)
(* beside the manager's thread and the one of set_settings.                  *)
EXTENDS KillSwitch

CONSTANTS c1, c2, p1, p2

MCCallers == {c1}
MCTwoCallers == {c1, c2}
MCProcs == {p1, p2}
=============================================================================
