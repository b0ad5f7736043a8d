-------------------------- MODULE MCTunnelManager --------------------------
(* Instances of TunnelManager for TLC: two threads that issue commands, so  *)
(* that a stop() can meet a stop() and a reconnect, and three wstunnel      *)
(* processes, one more than a ladder of two rungs needs.                    *)
EXTENDS TunnelManager, TLC

CONSTANTS c1, c2, p1, p2, p3

MCCallers == {c1, c2}
MCProcs == {p1, p2, p3}
MCSymmetry == Permutations(MCCallers) \cup Permutations(MCProcs)
=============================================================================
