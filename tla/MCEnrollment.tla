---------------------------- MODULE MCEnrollment ----------------------------
(* Instances of Enrollment for TLC: the listener beside one administrator,  *)
(* or beside two whose commands overlap as well; enough keys and tokens for *)
(* a revoked client to come back.                                           *)
EXTENDS Enrollment, TLC

CONSTANTS admin, other, n1, n2, k1, k2, t1, t2

MCAdmins == {admin}
MCTwoAdmins == {admin, other}
MCNames == {n1, n2}
MCKeys == {k1, k2}
MCTokens == {t1, t2}
MCSymmetry == Permutations(MCNames) \cup Permutations(MCKeys) \cup Permutations(MCTokens)
MCSymmetryTwo == MCSymmetry \cup Permutations(MCTwoAdmins)
=============================================================================
